---- MODULE Spec2Model ----
(***************************************************************************)
(* A model of conl-lsp: the text document (text_document.go), the frame    *)
(* codec (lsp/frames.go), the JSON-RPC connection (package lsp,            *)
(* Connection) and the language server (server.go).                        *)
(*                                                                         *)
(* The specifications of the module:                                       *)
(*   SpecText         the pure functions of TextDocument, applied to       *)
(*                    bounded contents, positions and changes;             *)
(*   SpecParent       getParentLine, applied to bounded lists of lines;    *)
(*   SpecFrames       WriteFrames followed by ReadFrames on a byte stream; *)
(*   SpecRead         ReadFrames on streams with malformed and truncated   *)
(*                    blocks;                                              *)
(*   Spec             Connection.Serve with the handlers of Server, the    *)
(*                    writer goroutine and the diagnostics goroutines;     *)
(*   SpecDiagnostics, SpecChanges, SpecSchemas, SpecLifecycle              *)
(*                    Serve with a client that sends the frames of one     *)
(*                    concern only.                                        *)
(* Each specification leaves the variables of the parts it does not run    *)
(* at their initial value.                                                 *)
(***************************************************************************)
EXTENDS Integers, Sequences, FiniteSets, TLC

(***************************************************************************)
(* Bounds of the model.                                                    *)
(***************************************************************************)
\* longest document content, in code points
MaxLen == 3
\* largest line and largest UTF-16 column of a position handed to resolve
MaxPos == 2
\* most frames handed to WriteFrames in one run of the codec
MaxFrames == 2

(***************************************************************************)
(* The state.  Each specification runs one part of the program and leaves  *)
(* the variables of the other parts alone.                                 *)
(***************************************************************************)
VARIABLES
    tdContent,      \* SpecText, SpecParent: TextDocument.Content
    tdLast,         \* SpecText, SpecParent: the last call, its arguments
                    \* and its result
    fcToSend,       \* SpecFrames, SpecRead: the frames still to come on
                    \* the channel
    fcSent,         \* SpecFrames: the frames WriteFrames has written
    fcWire,         \* SpecFrames: the bytes ReadFrames has not consumed yet
    fcClosed,       \* SpecFrames: the writing side has closed the stream
    fcYields,       \* SpecFrames: what ReadFrames has yielded so far
    fcEnd,          \* SpecFrames: how ReadFrames returned, "" while it runs
    reader,         \* the read loop of Serve: where it is, the frame it
                    \* dispatches, the frame it sends and what follows
    writer,         \* WriteFrames: where it is and the frame it writes
    cancelled,      \* ctx of Serve is done
    errCh,          \* the buffered channel errCh of Serve
    written,        \* the frames written to the outbound stream
    received,       \* the number of blocks read from the inbound stream
    serveResult,    \* what Serve returned, "" while it runs
    fatal,          \* the panic that ended the process, "" while it runs
    mutex,          \* Server.mutex: "" when free, else its holder
    openDocs,       \* Server.openDocs
    schemasInUse,   \* Server.schemasInUse
    httpSchemas,    \* Server.httpSchemas
    tasks           \* the calls of schema.Validate under way

textVars == <<tdContent, tdLast>>
frameVars == <<fcToSend, fcSent, fcWire, fcClosed, fcYields, fcEnd>>
connVars == <<reader, writer, cancelled, errCh, written, received, serveResult, fatal>>
serverVars == <<mutex, openDocs, schemasInUse, httpSchemas, tasks>>

otherThanText == <<frameVars, connVars, serverVars>>
otherThanFrames == <<textVars, connVars, serverVars>>
otherThanServe == <<textVars, frameVars>>

(***************************************************************************)
(* Strings.  A Go string is modelled as the sequence of its code points;   *)
(* every code point knows how many bytes UTF-8 needs for it and how many   *)
(* code units UTF-16 needs.  "e" stands for a two-byte code point of the   *)
(* BMP (U+00E9), "G" for a four-byte code point above the BMP (U+1F600).   *)
(***************************************************************************)
LF == "\n"
CR == "\r"

\* code points that a stored document can hold (contents are normalized)
DocRunes == {"a", LF, "e", "G"}

\* utf8.RuneLen: the bytes `range` advances by for the code point
Utf8Len(c) ==
    CASE c = "e" -> 2
      [] c = "G" -> 4
      [] OTHER -> 1

\* utf16.RuneLen
RuneLen(c) ==
    CASE c = "G" -> 2
      [] c = "surrogate" -> -1
      [] OTHER -> 1

RECURSIVE ByteLen(_)
\* len(s) of a Go string: its length in bytes
ByteLen(s) ==
    IF s = <<>> THEN 0 ELSE Utf8Len(Head(s)) + ByteLen(Tail(s))

\* the code points of s that start before byte offset ix
RunesBefore(s, ix) ==
    Cardinality({i \in 1..Len(s) : ByteLen(SubSeq(s, 1, i - 1)) < ix})

\* the byte offsets of s that lie on a code-point boundary
Boundaries(s) ==
    {ByteLen(SubSeq(s, 1, i)) : i \in 0..Len(s)}

\* s[:ix] for ix on a code-point boundary
SliceTo(s, ix) ==
    SubSeq(s, 1, RunesBefore(s, ix))

\* s[ix:] for ix on a code-point boundary
SliceFrom(s, ix) ==
    SubSeq(s, RunesBefore(s, ix) + 1, Len(s))

\* what `range s[:ix]` yields: the code points before ix and, when ix cuts a
\* code point, one U+FFFD (one UTF-16 unit) for each byte of the cut piece
RangeTo(s, ix) ==
    LET whole == Cardinality({i \in 1..Len(s) : ByteLen(SubSeq(s, 1, i)) <= ix})
        cut == ix - ByteLen(SubSeq(s, 1, whole))
    IN  SubSeq(s, 1, whole) \o [k \in 1..cut |-> "fffd"]

(***************************************************************************)
(* text_document.go                                                        *)
(***************************************************************************)
RECURSIVE normalizeNewlines(_)
\* lineEndRe.ReplaceAllString(s, "\n") for lineEndRe = `\r\n?`
normalizeNewlines(s) ==
    IF s = <<>> THEN <<>>
    ELSE IF Head(s) = CR
         THEN IF Len(s) > 1 /\ s[2] = LF
              THEN <<LF>> \o normalizeNewlines(Tail(Tail(s)))
              ELSE <<LF>> \o normalizeNewlines(Tail(s))
         ELSE <<Head(s)>> \o normalizeNewlines(Tail(s))

Position(line, character) == [Line |-> line, Character |-> character]

RECURSIVE resolveFrom(_, _, _, _, _)
\* the loop of resolve from the i-th code point, which starts at byte ix
resolveFrom(content, i, ix, line, character) ==
    IF i > Len(content) THEN ByteLen(content)
    ELSE LET c == content[i] IN
         IF line = 0
         THEN IF character = 0 THEN ix
              ELSE IF c = LF THEN ix
              ELSE LET d == RuneLen(c)
                       delta == IF d = -1 \/ (character = 1 /\ d = 2) THEN 1 ELSE d
                   IN  resolveFrom(content, i + 1, ix + Utf8Len(c), line,
                                   character - delta)
         ELSE IF c = LF
              THEN resolveFrom(content, i + 1, ix + Utf8Len(c), line - 1, character)
              ELSE resolveFrom(content, i + 1, ix + Utf8Len(c), line, character)

\* resolve that counts one UTF-16 unit for every code point
resolveCountsCodePoints(content, p) ==
    LET RECURSIVE walk(_, _, _, _)
        walk(i, ix, line, character) ==
            IF i > Len(content) THEN ByteLen(content)
            ELSE LET c == content[i] IN
                 IF line = 0
                 THEN IF character = 0 \/ c = LF THEN ix
                      ELSE walk(i + 1, ix + Utf8Len(c), line, character - 1)
                 ELSE walk(i + 1, ix + Utf8Len(c),
                           IF c = LF THEN line - 1 ELSE line, character)
    IN  walk(1, 0, p.Line, p.Character)

\* resolve that does not stop at the end of the line: a column beyond
\* the line runs on into the next lines
resolveOvershoots(content, p) ==
    LET RECURSIVE walk(_, _, _, _)
        walk(i, ix, line, character) ==
            IF i > Len(content) THEN ByteLen(content)
            ELSE LET c == content[i] IN
                 IF line = 0
                 THEN IF character = 0 THEN ix
                      ELSE LET d == RuneLen(c)
                               delta == IF d = -1 \/ (character = 1 /\ d = 2)
                                        THEN 1 ELSE d
                           IN  walk(i + 1, ix + Utf8Len(c), line, character - delta)
                 ELSE walk(i + 1, ix + Utf8Len(c),
                           IF c = LF THEN line - 1 ELSE line, character)
    IN  walk(1, 0, p.Line, p.Character)

\* TextDocument.resolve: position -> byte offset
resolve(content, p) ==
    resolveFrom(content, 1, 0, p.Line, p.Character)

RECURSIVE unresolveFrom(_, _, _)
\* the loop of unresolve over the code points cs still to visit
unresolveFrom(cs, line, character) ==
    IF cs = <<>> THEN Position(line, character)
    ELSE IF Head(cs) = LF
         THEN unresolveFrom(Tail(cs), line + 1, 0)
         ELSE LET d == RuneLen(Head(cs))
                  delta == IF d = -1 THEN 1 ELSE d
              IN  unresolveFrom(Tail(cs), line, character + delta)

\* TextDocument.unresolve: byte offset -> position
unresolve(content, ix) ==
    unresolveFrom(RangeTo(content, ix), 0, 0)

\* a content change without range; Range is a pointer: <<>> is nil
FullChange(text) == [Range |-> <<>>, Text |-> text]
\* a content change with a range
RangedChange(start, end, text) ==
    [Range |-> <<[Start |-> start, End |-> end]>>, Text |-> text]

\* applyChange that stores the text of the change as it came
applyChangeRaw(content, change) ==
    IF change.Range = <<>> THEN change.Text
    ELSE LET start == resolve(content, change.Range[1].Start)
             end == resolve(content, change.Range[1].End)
         IN  SliceTo(content, start) \o change.Text \o SliceFrom(content, end)

\* applyChange that also removes the code point after the range
applyChangeDropsEnd(content, change) ==
    LET text == normalizeNewlines(change.Text) IN
    IF change.Range = <<>> THEN text
    ELSE LET start == resolve(content, change.Range[1].Start)
             end == resolve(content, change.Range[1].End)
         IN  SliceTo(content, start) \o text \o SliceFrom(content, end + 1)

\* TextDocument.applyChange: the new content
applyChange(content, change) ==
    LET text == normalizeNewlines(change.Text) IN
    IF change.Range = <<>> THEN text
    ELSE LET start == resolve(content, change.Range[1].Start)
             end == resolve(content, change.Range[1].End)
         IN  SliceTo(content, start) \o text \o SliceFrom(content, end)

(***************************************************************************)
(* SpecText: one TextDocument and the last operation applied to it.        *)
(***************************************************************************)
RECURSIVE SeqsUpTo(_, _)
\* the sequences over S of length at most n
SeqsUpTo(S, n) ==
    IF n = 0 THEN {<<>>}
    ELSE LET shorter == SeqsUpTo(S, n - 1)
         IN  shorter \cup {Append(s, x) : s \in {t \in shorter : Len(t) = n - 1}, x \in S}

\* contents a document is created with (NewTextDocument normalizes them)
Contents == SeqsUpTo(DocRunes, MaxLen)

\* texts of content changes, as the editor sends them
ChangeTexts ==
    {<<>>, <<"a">>, <<LF>>, <<CR>>, <<CR, LF>>, <<"G">>, <<"a", CR>>,
     <<CR, "a">>, <<CR, LF, "a">>}

Positions == {Position(l, c) : l \in 0..MaxPos, c \in 0..MaxPos}

\* no call is under way
NoCall == [op |-> "new", old |-> <<>>, change |-> FullChange(<<>>),
           pos |-> Position(0, 0), ix |-> 0]

\* NewTextDocument(uri, version, content, language)
NewTextDocument(content) == normalizeNewlines(content)

InitTextVars ==
    /\ tdContent \in {NewTextDocument(c) : c \in Contents}
    /\ tdLast = NoCall

\* t.applyChange(change), for a document that stays within MaxLen
TdApplyChange(change) ==
    /\ tdLast.op = "new"
    /\ Len(applyChange(tdContent, change)) <= MaxLen
    /\ tdContent' = applyChange(tdContent, change)
    /\ tdLast' = [op |-> "applyChange", old |-> tdContent, change |-> change,
                  pos |-> Position(0, 0), ix |-> 0]
    /\ UNCHANGED otherThanText

\* t.unresolve(ix)
TdUnresolve(ix) ==
    /\ tdLast.op = "new"
    /\ tdLast' = [op |-> "unresolve", old |-> tdContent, change |-> FullChange(<<>>),
                  pos |-> unresolve(tdContent, ix), ix |-> ix]
    /\ UNCHANGED tdContent
    /\ UNCHANGED otherThanText

\* t.resolve(p)
TdResolve(p) ==
    /\ tdLast.op = "new"
    /\ tdLast' = [op |-> "resolve", old |-> tdContent, change |-> FullChange(<<>>),
                  pos |-> p, ix |-> resolve(tdContent, p)]
    /\ UNCHANGED tdContent
    /\ UNCHANGED otherThanText

\* t.resolve(t.unresolve(ix)): the position unresolve returned goes to resolve
TdResolveLast ==
    /\ tdLast.op = "unresolve"
    /\ tdLast' = [op |-> "roundtrip", old |-> tdContent, change |-> FullChange(<<>>),
                  pos |-> tdLast.pos, ix |-> resolve(tdContent, tdLast.pos)]
    /\ UNCHANGED tdContent
    /\ UNCHANGED otherThanText

\* the call returns and its result is dropped
TdReturn ==
    /\ tdLast.op # "new"
    /\ tdLast' = NoCall
    /\ UNCHANGED tdContent
    /\ UNCHANGED otherThanText

(***************************************************************************)
(* Bytes on the wire.  A byte stream is a sequence of tokens, one token    *)
(* for one byte: punctuation, digits and white space are the characters    *)
(* themselves; a header name and the text between two quotes of a JSON     *)
(* string are one token each.  len() counts tokens.                        *)
(***************************************************************************)
Digits == <<"0", "1", "2", "3", "4", "5", "6", "7", "8", "9">>

DigitValue(t) == CHOOSE d \in 0..9 : Digits[d + 1] = t

IsDigit(t) == \E d \in 0..9 : Digits[d + 1] = t

RECURSIVE FormatNat(_)
\* fmt "%d" of a number >= 0
FormatNat(n) ==
    IF n < 10 THEN <<Digits[n + 1]>>
    ELSE FormatNat(n \div 10) \o <<Digits[(n % 10) + 1]>>

\* fmt "%d" (strconv.Itoa)
Itoa(n) == IF n < 0 THEN <<"-">> \o FormatNat(-n) ELSE FormatNat(n)

RECURSIVE DigitsValue(_, _)
\* the number a run of digits spells, after acc
DigitsValue(ts, acc) ==
    IF ts = <<>> THEN acc ELSE DigitsValue(Tail(ts), 10 * acc + DigitValue(Head(ts)))

\* strconv.Atoi: an optional sign and at least one digit, nothing else
Atoi(ts) ==
    LET signed == ts # <<>> /\ Head(ts) \in {"-", "+"}
        body == IF signed THEN Tail(ts) ELSE ts
    IN  IF body = <<>> \/ \E i \in 1..Len(body) : ~IsDigit(body[i])
        THEN [ok |-> FALSE, val |-> 0]
        ELSE [ok |-> TRUE,
              val |-> IF signed /\ Head(ts) = "-" THEN -DigitsValue(body, 0)
                      ELSE DigitsValue(body, 0)]

IsSpace(t) == t \in {" ", CR, LF, "\t"}

RECURSIVE TrimLeft(_)
TrimLeft(ts) ==
    IF ts # <<>> /\ IsSpace(Head(ts)) THEN TrimLeft(Tail(ts)) ELSE ts

RECURSIVE TrimRight(_)
TrimRight(ts) ==
    IF ts # <<>> /\ IsSpace(ts[Len(ts)]) THEN TrimRight(SubSeq(ts, 1, Len(ts) - 1)) ELSE ts

\* strings.TrimSpace
TrimSpace(ts) == TrimRight(TrimLeft(ts))

\* strings.ToLower, on the header names of the model
ToLowerToken(t) ==
    IF t \in {"Content-Length", "CONTENT-LENGTH"} THEN "content-length" ELSE t

ToLower(ts) == [i \in 1..Len(ts) |-> ToLowerToken(ts[i])]

\* the index of the first t in ts, 0 when there is none
IndexOf(ts, t) ==
    IF \E i \in 1..Len(ts) : ts[i] = t
    THEN CHOOSE i \in 1..Len(ts) : ts[i] = t /\ \A j \in 1..(i - 1) : ts[j] # t
    ELSE 0

(***************************************************************************)
(* encoding/json, as far as Frame uses it.  A json.RawMessage is the       *)
(* token sequence of one JSON value; nil and empty are both <<>>.  A       *)
(* pointer is a sequence of length at most one: <<>> is nil.               *)
(***************************************************************************)
\* a JSON string
JsonString(s) == <<"\"", s, "\"">>

\* Frame and RpcError of lsp/frames.go
Frame(id, method, params, result, error) ==
    [JsonRPC |-> "2.0", Id |-> id, Method |-> method, Params |-> params,
     Result |-> result, Error |-> error, Batch |-> <<>>]

RpcError(code, message) == [Code |-> code, Message |-> message]

\* the zero Frame, which json.Unmarshal fills
ZeroFrame ==
    [JsonRPC |-> "", Id |-> <<>>, Method |-> "", Params |-> <<>>,
     Result |-> <<>>, Error |-> <<>>, Batch |-> <<>>]

\* json.Marshal(*RpcError)
MarshalRpcError(e) ==
    <<"{">> \o JsonString("code") \o <<":">> \o Itoa(e.Code) \o <<",">>
        \o JsonString("message") \o <<":">> \o JsonString(e.Message) \o <<"}">>

\* one member of an object, with the comma before it
Member(key, value) == <<",">> \o JsonString(key) \o <<":">> \o value

\* json.Marshal(frame): the members in the order of the struct, the empty
\* ones left out (omitempty), Batch never written (json:"-")
MarshalFrame(f) ==
    <<"{">> \o JsonString("jsonrpc") \o <<":">> \o JsonString(f.JsonRPC)
        \o (IF f.Id = <<>> THEN <<>> ELSE Member("id", f.Id))
        \o (IF f.Method = "" THEN <<>> ELSE Member("method", JsonString(f.Method)))
        \o (IF f.Params = <<>> THEN <<>> ELSE Member("params", f.Params))
        \o (IF f.Result = <<>> THEN <<>> ELSE Member("result", f.Result))
        \o (IF f.Error = <<>> THEN <<>> ELSE Member("error", MarshalRpcError(f.Error[1])))
        \o <<"}">>

RECURSIVE CloseOf(_, _, _)
\* the index of the bracket that closes the one open before i at depth d, 0 if none
CloseOf(ts, i, d) ==
    IF i > Len(ts) THEN 0
    ELSE IF ts[i] = "\"" THEN
            IF i + 2 <= Len(ts) /\ ts[i + 2] = "\"" THEN CloseOf(ts, i + 3, d) ELSE 0
    ELSE IF ts[i] \in {"{", "["} THEN CloseOf(ts, i + 1, d + 1)
    ELSE IF ts[i] \in {"}", "]"} THEN
            IF d = 1 THEN i ELSE CloseOf(ts, i + 1, d - 1)
    ELSE CloseOf(ts, i + 1, d)

RECURSIVE NumberEnd(_, _)
NumberEnd(ts, i) ==
    IF i + 1 <= Len(ts) /\ IsDigit(ts[i + 1]) THEN NumberEnd(ts, i + 1) ELSE i

\* the index of the last token of the JSON value that starts at i, 0 if there is none
ValueEnd(ts, i) ==
    IF i > Len(ts) THEN 0
    ELSE IF ts[i] \in {"{", "["} THEN CloseOf(ts, i + 1, 1)
    ELSE IF ts[i] = "\"" THEN
            IF i + 2 <= Len(ts) /\ ts[i + 2] = "\"" THEN i + 2 ELSE 0
    ELSE IF ts[i] \in {"null", "true", "false"} THEN i
    ELSE IF IsDigit(ts[i]) THEN NumberEnd(ts, i)
    ELSE IF ts[i] = "-" /\ i + 1 <= Len(ts) /\ IsDigit(ts[i + 1]) THEN NumberEnd(ts, i + 1)
    ELSE 0

\* the result of a conversion that can fail
Ok(val) == [ok |-> TRUE, val |-> val]
Failed(val) == [ok |-> FALSE, val |-> val]

\* what the parser of an object or array returns for a malformed text
Malformed == <<<<"error">>>>

\* the member that ends at e is followed by a comma, by the end of the
\* object, or by something else
AfterValue(ts, e, close) ==
    IF e = 0 \/ e + 1 > Len(ts) THEN "error"
    ELSE IF ts[e + 1] = close THEN (IF e + 1 = Len(ts) THEN "end" ELSE "error")
    ELSE IF ts[e + 1] = "," THEN "more"
    ELSE "error"

RECURSIVE ObjectMembers(_, _, _)
RECURSIVE MemberAt(_, _, _, _)
\* the members <<key, value>> of the object whose next member starts at i
ObjectMembers(ts, i, acc) ==
    IF i + 3 > Len(ts) \/ ts[i] # "\"" \/ ts[i + 2] # "\"" \/ ts[i + 3] # ":"
    THEN Malformed
    ELSE MemberAt(ts, i, ValueEnd(ts, i + 4), acc)

\* the member at i, whose value ends at e, and the members after it
MemberAt(ts, i, e, acc) ==
    CASE AfterValue(ts, e, "}") = "error" -> Malformed
      [] AfterValue(ts, e, "}") = "end" ->
            Append(acc, <<<<ts[i + 1]>>, SubSeq(ts, i + 4, e)>>)
      [] OTHER ->
            ObjectMembers(ts, e + 2, Append(acc, <<<<ts[i + 1]>>, SubSeq(ts, i + 4, e)>>))

\* the members of the JSON object ts: pairs <<<<key>>, value>>
ParseObject(ts) ==
    IF Len(ts) < 2 \/ ts[1] # "{" THEN Malformed
    ELSE IF ts[2] = "}" THEN (IF Len(ts) = 2 THEN <<>> ELSE Malformed)
    ELSE ObjectMembers(ts, 2, <<>>)

IsJsonString(v) == Len(v) = 3 /\ v[1] = "\"" /\ v[3] = "\""

\* RpcError.Code = n, for the number Atoi made of the value
WithCode(e, n) ==
    IF n.ok THEN Ok([e EXCEPT !.Code = n.val]) ELSE Failed(e)

\* one member, key k and value x, stored into the RpcError e
FillErrorMember(e, k, x) ==
    IF x = <<"null">> THEN Ok(e)
    ELSE IF k = "code" THEN
            IF Head(x) = "+" THEN Failed(e) ELSE WithCode(e, Atoi(x))
    ELSE IF k = "message" THEN
            IF IsJsonString(x) THEN Ok([e EXCEPT !.Message = x[2]]) ELSE Failed(e)
    ELSE Ok(e)

RECURSIVE FillError(_, _, _)
\* the members ms from the i-th on, stored into the RpcError r.val
FillError(ms, i, r) ==
    IF ~r.ok \/ i > Len(ms) THEN r
    ELSE FillError(ms, i + 1, FillErrorMember(r.val, ms[i][1][1], ms[i][2]))

\* the RpcError of the parsed members
RpcErrorOf(ms) ==
    IF ms = Malformed THEN Failed(RpcError(0, "")) ELSE FillError(ms, 1, Ok(RpcError(0, "")))

\* json.Unmarshal(v, *RpcError) for the value of "error"
UnmarshalRpcError(v) == RpcErrorOf(ParseObject(v))

\* Frame.Error = &e, for the RpcError unmarshalled from the value
WithError(f, e) ==
    IF e.ok THEN Ok([f EXCEPT !.Error = <<e.val>>]) ELSE Failed(f)

\* one member, key k and value x, stored into the frame f: a RawMessage
\* member takes the text of its value as it stands (a JSON null too), a
\* string member is left alone by null, an unknown member is skipped
FillFrameMember(f, k, x) ==
    CASE k \in {"jsonrpc", "method"} ->
            IF x = <<"null">> THEN Ok(f)
            ELSE IF ~IsJsonString(x) THEN Failed(f)
            ELSE IF k = "method" THEN Ok([f EXCEPT !.Method = x[2]])
            ELSE Ok([f EXCEPT !.JsonRPC = x[2]])
      [] k = "id" -> Ok([f EXCEPT !.Id = x])
      [] k = "params" -> Ok([f EXCEPT !.Params = x])
      [] k = "result" -> Ok([f EXCEPT !.Result = x])
      [] k = "error" ->
            IF x = <<"null">> THEN Ok([f EXCEPT !.Error = <<>>])
            ELSE WithError(f, UnmarshalRpcError(x))
      [] OTHER -> Ok(f)

RECURSIVE FillFrame(_, _, _)
\* the members ms from the i-th on, stored into the frame r.val
FillFrame(ms, i, r) ==
    IF ~r.ok \/ i > Len(ms) THEN r
    ELSE FillFrame(ms, i + 1, FillFrameMember(r.val, ms[i][1][1], ms[i][2]))

\* the frame of the parsed members
FrameOf(ms) ==
    IF ms = Malformed THEN Failed(ZeroFrame) ELSE FillFrame(ms, 1, Ok(ZeroFrame))

\* json.Unmarshal(buf, &frame)
UnmarshalFrame(buf) == FrameOf(ParseObject(buf))

RECURSIVE SplitElements(_, _, _)
RECURSIVE ElementAt(_, _, _, _)
\* the texts of the elements of the array whose next element starts at i
SplitElements(ts, i, acc) ==
    ElementAt(ts, i, ValueEnd(ts, i), acc)

\* the element at i, which ends at e, and the elements after it
ElementAt(ts, i, e, acc) ==
    CASE AfterValue(ts, e, "]") = "error" -> Malformed
      [] AfterValue(ts, e, "]") = "end" -> Append(acc, SubSeq(ts, i, e))
      [] OTHER -> SplitElements(ts, e + 2, Append(acc, SubSeq(ts, i, e)))

\* the texts of the elements of the JSON array ts
ParseArray(ts) ==
    IF Len(ts) < 2 \/ ts[1] # "[" THEN Malformed
    ELSE IF ts[2] = "]" THEN (IF Len(ts) = 2 THEN <<>> ELSE Malformed)
    ELSE SplitElements(ts, 2, <<>>)

\* a pointer to the frame, for the frame unmarshalled from an element
PointerTo(r) == IF r.ok THEN Ok(<<r.val>>) ELSE Failed(<<>>)

\* append(frames, p), for the pointer made of an element
AppendFrame(frames, p) ==
    IF p.ok THEN Ok(Append(frames, p.val)) ELSE Failed(frames)

RECURSIVE FillBatch(_, _, _)
\* the elements xs from the i-th on, appended to the frames r.val; an
\* element is a pointer: <<>> for null, <<frame>> otherwise
FillBatch(xs, i, r) ==
    IF ~r.ok \/ i > Len(xs) THEN r
    ELSE IF xs[i] = <<"null">> THEN FillBatch(xs, i + 1, Ok(Append(r.val, <<>>)))
    ELSE FillBatch(xs, i + 1, AppendFrame(r.val, PointerTo(UnmarshalFrame(xs[i]))))

\* the frames of the parsed elements
BatchOf(xs) ==
    IF xs = Malformed THEN Failed(<<>>) ELSE FillBatch(xs, 1, Ok(<<>>))

\* json.Unmarshal(buf, &frames) for frames of type []*Frame
UnmarshalBatch(buf) == BatchOf(ParseArray(buf))

(***************************************************************************)
(* lsp/frames.go                                                           *)
(***************************************************************************)
\* what WriteFrames writes for one frame, with the length one too small
EncodeFrameShortLength(frame) ==
    LET msg == MarshalFrame(frame)
    IN  <<"Content-Length", ":", " ">> \o Itoa(Len(msg) - 1) \o <<CR, LF, CR, LF>> \o msg

\* what WriteFrames writes for one frame: the header, then the payload
EncodeFrame(frame) ==
    LET msg == MarshalFrame(frame)
        header == <<"Content-Length", ":", " ">> \o Itoa(Len(msg)) \o <<CR, LF, CR, LF>>
    IN  header \o msg

\* what ReadFrames yields, or how it returns without yielding
Yield(kind, frame, err, rest) ==
    [kind |-> kind, frame |-> frame, err |-> err, rest |-> rest]

\* headers[key] = value
SetHeader(headers, key, value) ==
    [k \in DOMAIN headers \cup {key} |-> IF k = key THEN value ELSE headers[k]]

\* headers[key], the empty string when the key is missing
GetHeader(headers, key) ==
    IF key \in DOMAIN headers THEN headers[key] ELSE <<>>

\* ReadFrames yields the frame unmarshalled from the payload, or the error
YieldFrame(r, after) ==
    IF r.ok THEN Yield("frame", <<r.val>>, "nil", after)
    ELSE Yield("error", <<>>, "json", after)

\* frame.Batch = frames, for the frames unmarshalled from the payload
BatchFrame(r) ==
    IF r.ok THEN Ok([ZeroFrame EXCEPT !.Batch = <<r.val>>]) ELSE Failed(ZeroFrame)

\* the end of an iteration of ReadFrames: the payload buf is unmarshalled
ReadJson(buf, after) ==
    IF buf # <<>> /\ Head(buf) = "["
    THEN YieldFrame(BatchFrame(UnmarshalBatch(buf)), after)
    ELSE YieldFrame(UnmarshalFrame(buf), after)

\* an iteration of ReadFrames once the header lines are read: byteLen is
\* what strconv.Atoi made of the content-length header
ReadPayload(byteLen, invalidLine, rest) ==
    IF ~byteLen.ok THEN Yield("error", <<>>, "invalid content-length header", rest)
    \* frameErr is the invalid line and err is nil: err.Error() panics
    ELSE IF invalidLine THEN Yield("panic", <<>>, "nil pointer dereference", rest)
    \* make([]byte, byteLen) panics for a negative length
    ELSE IF byteLen.val < 0 THEN Yield("panic", <<>>, "makeslice: len out of range", rest)
    ELSE IF Len(rest) < byteLen.val THEN Yield("error", <<>>, "unexpected EOF", <<>>)
    ELSE ReadJson(SubSeq(rest, 1, byteLen.val), SubSeq(rest, byteLen.val + 1, Len(rest)))

\* strings.Cut(line, ":"), for colon the index of the first colon of the line
CutKey(line, colon) == IF colon = 0 THEN line ELSE SubSeq(line, 1, colon - 1)
CutValue(line, colon) == IF colon = 0 THEN <<>> ELSE SubSeq(line, colon + 1, Len(line))

RECURSIVE ReadHeaders(_, _, _)
RECURSIVE ReadLine(_, _, _, _)
RECURSIVE HeaderLine(_, _, _, _)
\* the loop over the header lines of one iteration of ReadFrames; rest is
\* what the reader still holds, and the stream ends after it
ReadHeaders(headers, invalidLine, rest) ==
    ReadLine(headers, invalidLine, rest, IndexOf(rest, LF))

\* br.ReadString('\n') and what the loop does with it; the line ends at nl
ReadLine(headers, invalidLine, rest, nl) ==
    IF nl = 0
    THEN \* io.EOF
         IF DOMAIN headers # {}
         THEN Yield("error", <<>>, "unexpected EOF", <<>>)
         ELSE Yield("end", <<>>, "nil", <<>>)
    ELSE IF DOMAIN headers # {} /\ TrimSpace(SubSeq(rest, 1, nl)) = <<>>
         THEN ReadPayload(Atoi(TrimSpace(GetHeader(headers, <<"content-length">>))),
                          invalidLine, SubSeq(rest, nl + 1, Len(rest)))
    ELSE HeaderLine(headers, invalidLine, SubSeq(rest, 1, nl),
                    SubSeq(rest, nl + 1, Len(rest)))

\* a header line is cut at its first colon and stored
HeaderLine(headers, invalidLine, line, after) ==
    ReadHeaders(SetHeader(headers, ToLower(TrimSpace(CutKey(line, IndexOf(line, ":")))),
                          TrimSpace(CutValue(line, IndexOf(line, ":")))),
                invalidLine \/ IndexOf(line, ":") = 0, after)

\* one iteration of the outer loop of ReadFrames
ReadFrame(rest) ==
    ReadHeaders(<<>>, FALSE, rest)

(***************************************************************************)
(* SpecFrames: frames go through WriteFrames into a byte stream, and       *)
(* ReadFrames reads the stream.                                            *)
(***************************************************************************)
ObjectOf(key, value) == <<"{">> \o JsonString(key) \o <<":">> \o value \o <<"}">>

\* requests, notifications, success responses and error responses as the
\* server and its clients build them
ValidFrames ==
    { Frame(<<"0">>, "initialize", <<"{", "}">>, <<>>, <<>>),
      Frame(JsonString("a"), "textDocument/hover",
            ObjectOf("position", ObjectOf("line", <<"1", "2">>)), <<>>, <<>>),
      Frame(<<"1">>, "shutdown", <<"null">>, <<>>, <<>>),
      Frame(<<>>, "exit", <<>>, <<>>, <<>>),
      Frame(<<>>, "textDocument/didClose", ObjectOf("uri", JsonString("d1")), <<>>, <<>>),
      Frame(<<"1">>, "", <<>>, <<"null">>, <<>>),
      Frame(<<"0">>, "", <<>>, ObjectOf("hoverProvider", <<"true">>), <<>>),
      Frame(<<"1">>, "", <<>>, <<>>, <<RpcError(-32601, "x not found")>>),
      Frame(<<"null">>, "", <<>>, <<>>, <<RpcError(-32603, "")>>),
      Frame(<<>>, "", <<>>, <<>>, <<RpcError(-32700, "batch")>>) }

InitFrameVars ==
    /\ fcToSend \in SeqsUpTo(ValidFrames, MaxFrames)
    /\ fcSent = <<>>
    /\ fcWire = <<>>
    /\ fcClosed = FALSE
    /\ fcYields = <<>>
    /\ fcEnd = ""

\* WriteFrames takes a frame from the channel and writes it
FcWriteFrame ==
    /\ ~fcClosed
    /\ fcToSend # <<>>
    /\ fcWire' = fcWire \o EncodeFrame(Head(fcToSend))
    /\ fcSent' = Append(fcSent, Head(fcToSend))
    /\ fcToSend' = Tail(fcToSend)
    /\ UNCHANGED <<fcClosed, fcYields, fcEnd>>
    /\ UNCHANGED otherThanFrames

\* the context is done: WriteFrames returns and the stream is closed
FcClose ==
    /\ ~fcClosed
    /\ fcClosed' = TRUE
    /\ UNCHANGED <<fcToSend, fcSent, fcWire, fcYields, fcEnd>>
    /\ UNCHANGED otherThanFrames

\* ReadFrames runs one iteration: it yields a frame, or ends
FcReadFrame ==
    /\ fcEnd = ""
    /\ fcWire # <<>> \/ fcClosed
    /\ LET y == ReadFrame(fcWire) IN
        /\ fcWire' = y.rest
        /\ fcYields' = IF y.kind \in {"frame", "error"}
                       THEN Append(fcYields, [frame |-> y.frame, err |-> y.err])
                       ELSE fcYields
        /\ fcEnd' = IF y.kind = "frame" THEN "" ELSE y.kind
    /\ UNCHANGED <<fcToSend, fcSent, fcClosed>>
    /\ UNCHANGED otherThanFrames

(***************************************************************************)
(* lsp/structs.go: the parameters of the methods, their JSON texts and     *)
(* what json.Unmarshal makes of them.                                      *)
(***************************************************************************)
RECURSIVE Join(_)
\* the Go string made of the code points s: the one token that stands for
\* the body of a JSON string
Join(s) == IF s = <<>> THEN "" ELSE Head(s) \o Join(Tail(s))

\* the texts a client puts into a document or a change
Texts == SeqsUpTo(DocRunes \cup {CR}, MaxLen)

\* the code points of the Go string t
RunesOf(t) == CHOOSE s \in Texts : Join(s) = t

RECURSIVE MembersText(_)
\* the members ms = << <<key, value>>, ... >> of an object, comma separated
MembersText(ms) ==
    IF ms = <<>> THEN <<>>
    ELSE JsonString(ms[1][1]) \o <<":">> \o ms[1][2]
            \o (IF Len(ms) > 1 THEN <<",">> ELSE <<>>) \o MembersText(Tail(ms))

\* the JSON object with the members ms
JsonObject(ms) == <<"{">> \o MembersText(ms) \o <<"}">>

RECURSIVE ElementsText(_)
ElementsText(xs) ==
    IF xs = <<>> THEN <<>>
    ELSE xs[1] \o (IF Len(xs) > 1 THEN <<",">> ELSE <<>>) \o ElementsText(Tail(xs))

\* the JSON array with the elements xs
JsonArray(xs) == <<"[">> \o ElementsText(xs) \o <<"]">>

\* the document uris of the model and the schema uris they refer to
DocD == "file:///d"
DocS == "file:///s"
HttpS == "https://h/s"
DocURIs == {DocD, DocS}

\* DocumentURI.UnmarshalJSON: url.Parse(raw), then u.String()
ParseURI(raw) ==
    IF raw \in DocURIs \cup {HttpS, ""} THEN Ok(raw) ELSE Failed("")

\* the value of the last member of ms named key, <<>> when there is none
Lookup(ms, key) ==
    IF \E i \in 1..Len(ms) : ms[i][1][1] = key
    THEN ms[CHOOSE i \in 1..Len(ms) :
                /\ ms[i][1][1] = key
                /\ \A j \in (i + 1)..Len(ms) : ms[j][1][1] # key][2]
    ELSE <<>>

\* a string member: absent and null leave the zero value
DecodeString(v) ==
    IF v = <<>> \/ v = <<"null">> THEN Ok("")
    ELSE IF IsJsonString(v) THEN Ok(v[2])
    ELSE Failed("")

\* the uri made of the string of a member
UriOf(r) == IF r.ok THEN ParseURI(r.val) ELSE Failed("")

\* a DocumentURI member
DecodeURI(v) == UriOf(DecodeString(v))

\* the code points made of the string of a member
TextOf(r) == IF r.ok THEN Ok(RunesOf(r.val)) ELSE Failed(<<>>)

\* a string member that holds document text
DecodeText(v) == TextOf(DecodeString(v))

\* a number member (int32, uint32): a JSON number, no sign "+"
DecodeInt(v) ==
    IF v = <<>> \/ v = <<"null">> THEN Ok(0)
    ELSE IF Head(v) = "+" THEN Failed(0)
    ELSE Atoi(v)

\* the members of an object member; absent and null leave the zero value
DecodeMembers(v) ==
    IF v = <<>> \/ v = <<"null">> THEN <<>> ELSE ParseObject(v)

\* lsp.Position of its decoded members
PositionOf(line, character) ==
    IF line.ok /\ character.ok /\ line.val >= 0 /\ character.val >= 0
    THEN Ok(Position(line.val, character.val))
    ELSE Failed(Position(0, 0))

\* lsp.Position of the members of its object
PositionOfMembers(ms) ==
    IF ms = Malformed THEN Failed(Position(0, 0))
    ELSE PositionOf(DecodeInt(Lookup(ms, "line")), DecodeInt(Lookup(ms, "character")))

\* a member of type lsp.Position
DecodePosition(v) == PositionOfMembers(DecodeMembers(v))

\* lsp.Range of its decoded positions
RangeOf(start, end) ==
    IF start.ok /\ end.ok THEN Ok(<<[Start |-> start.val, End |-> end.val]>>)
    ELSE Failed(<<>>)

\* lsp.Range of the members of its object
RangeOfMembers(ms) ==
    IF ms = Malformed THEN Failed(<<>>)
    ELSE RangeOf(DecodePosition(Lookup(ms, "start")), DecodePosition(Lookup(ms, "end")))

\* a member of type *lsp.Range: absent and null leave nil
DecodeRange(v) ==
    IF v = <<>> \/ v = <<"null">> THEN Ok(<<>>) ELSE RangeOfMembers(ParseObject(v))

\* lsp.TextDocumentContentChangeEvent of its decoded members
ChangeOf(range, text) ==
    IF range.ok /\ text.ok THEN Ok([Range |-> range.val, Text |-> text.val])
    ELSE Failed(FullChange(<<>>))

\* one element of contentChanges
DecodeChange(x) ==
    IF x = <<"null">> THEN Ok(FullChange(<<>>))
    ELSE IF ParseObject(x) = Malformed THEN Failed(FullChange(<<>>))
    ELSE ChangeOf(DecodeRange(Lookup(ParseObject(x), "range")),
                  DecodeText(Lookup(ParseObject(x), "text")))

\* append(changes, c), for the change made of an element
AppendChange(changes, c) ==
    IF c.ok THEN Ok(Append(changes, c.val)) ELSE Failed(changes)

RECURSIVE FillChanges(_, _, _)
\* the elements xs from the i-th on, appended to the changes r.val
FillChanges(xs, i, r) ==
    IF ~r.ok \/ i > Len(xs) THEN r
    ELSE FillChanges(xs, i + 1, AppendChange(r.val, DecodeChange(xs[i])))

\* the changes of the parsed elements
ChangesOf(xs) ==
    IF xs = Malformed THEN Failed(<<>>) ELSE FillChanges(xs, 1, Ok(<<>>))

\* the member contentChanges
DecodeChanges(v) ==
    IF v = <<>> \/ v = <<"null">> THEN Ok(<<>>) ELSE ChangesOf(ParseArray(v))

\* the methods NewServer registers, and the kind of their handler
RequestMethods ==
    {"initialize", "shutdown", "textDocument/completion", "textDocument/hover"}
NotificationMethods ==
    {"exit", "textDocument/didOpen", "textDocument/didChange", "textDocument/didClose"}

\* the decoded parameters of a method, one record for all the types; a
\* member a type does not have keeps its zero value
Params(uri, version, text, position, changes) ==
    [URI |-> uri, Version |-> version, Text |-> text, Position |-> position,
     ContentChanges |-> changes]

\* TextDocumentItem, VersionedTextDocumentIdentifier or TextDocumentIdentifier
\* of its decoded members
ItemOf(uri, version, text) ==
    IF uri.ok /\ version.ok /\ text.ok
    THEN Ok([URI |-> uri.val, Version |-> version.val, Text |-> text.val])
    ELSE Failed([URI |-> "", Version |-> 0, Text |-> <<>>])

\* the member textDocument of the parameters of the method, of its members
ItemOfMembers(method, ms) ==
    IF ms = Malformed THEN ItemOf(Failed(""), Ok(0), Ok(<<>>))
    ELSE ItemOf(DecodeURI(Lookup(ms, "uri")),
                IF method \in {"textDocument/hover", "textDocument/completion"}
                THEN Ok(0) ELSE DecodeInt(Lookup(ms, "version")),
                IF method \in {"textDocument/didOpen", "textDocument/didClose"}
                THEN DecodeText(Lookup(ms, "text")) ELSE Ok(<<>>))

\* the parameters of their decoded members
ParamsOf(item, position, changes) ==
    IF item.ok /\ position.ok /\ changes.ok
    THEN Ok(<<Params(item.val.URI, item.val.Version, item.val.Text,
                     position.val, changes.val)>>)
    ELSE Failed(<<>>)

\* the parameters of the method, of the members of their object
ParamsOfMembers(method, ms) ==
    IF ms = Malformed THEN Failed(<<>>)
    ELSE IF method \in {"initialize", "shutdown", "exit"}
    THEN Ok(<<Params("", 0, <<>>, Position(0, 0), <<>>)>>)
    ELSE ParamsOf(ItemOfMembers(method, DecodeMembers(Lookup(ms, "textDocument"))),
                  IF method \in {"textDocument/hover", "textDocument/completion"}
                  THEN DecodePosition(Lookup(ms, "position")) ELSE Ok(Position(0, 0)),
                  IF method = "textDocument/didChange"
                  THEN DecodeChanges(Lookup(ms, "contentChanges")) ELSE Ok(<<>>))

\* json.Unmarshal(recv.Params, param.Interface()) for the parameter type of
\* the method, a pointer to a struct: <<>> is the nil pointer null leaves
DecodeParams(method, raw) ==
    IF raw = <<>> THEN Failed(<<>>)
    ELSE IF raw = <<"null">> THEN Ok(<<>>)
    ELSE ParamsOfMembers(method, ParseObject(raw))

\* the JSON text of a position and of a content change
PositionJson(p) ==
    JsonObject(<< <<"line", Itoa(p.Line)>>, <<"character", Itoa(p.Character)>> >>)
ChangeJson(c) ==
    IF c.Range = <<>> THEN JsonObject(<< <<"text", JsonString(Join(c.Text))>> >>)
    ELSE JsonObject(<< <<"range", JsonObject(<< <<"start", PositionJson(c.Range[1].Start)>>,
                                                <<"end", PositionJson(c.Range[1].End)>> >>)>>,
                       <<"text", JsonString(Join(c.Text))>> >>)

\* the notifications and requests of a client
DidOpenFrame(uri, version, text) ==
    Frame(<<>>, "textDocument/didOpen",
          JsonObject(<< <<"textDocument",
                          JsonObject(<< <<"uri", JsonString(uri)>>,
                                        <<"version", Itoa(version)>>,
                                        <<"text", JsonString(Join(text))>> >>)>> >>),
          <<>>, <<>>)
DidChangeFrame(uri, version, changes) ==
    Frame(<<>>, "textDocument/didChange",
          JsonObject(<< <<"textDocument",
                          JsonObject(<< <<"uri", JsonString(uri)>>,
                                        <<"version", Itoa(version)>> >>)>>,
                        <<"contentChanges",
                          JsonArray([i \in 1..Len(changes) |-> ChangeJson(changes[i])])>> >>),
          <<>>, <<>>)
DidCloseFrame(uri) ==
    Frame(<<>>, "textDocument/didClose",
          JsonObject(<< <<"textDocument", JsonObject(<< <<"uri", JsonString(uri)>> >>)>> >>),
          <<>>, <<>>)
PositionFrame(id, method, uri, position) ==
    Frame(id, method,
          JsonObject(<< <<"textDocument", JsonObject(<< <<"uri", JsonString(uri)>> >>)>>,
                        <<"position", PositionJson(position)>> >>),
          <<>>, <<>>)

(***************************************************************************)
(* The collaborators of the server that are not part of it: the validation *)
(* engine (schema.Validate, schema.Parse), net/url, the file system and    *)
(* the network.  The engine is a function of the content: the first code   *)
(* point of a document stands for its schema directive ("e" for a          *)
(* reference to the sibling file s, "e" twice for the reference "%", which *)
(* url.Parse rejects, "G" for a reference to https://h/s, anything else    *)
(* for no directive); the outcome of a file read and of a fetch is chosen  *)
(* by the environment.                                                     *)
(***************************************************************************)
\* the name schema.Validate hands to the resolver for the content
SchemaRef(content) ==
    IF content = <<>> THEN ""
    ELSE CASE Len(content) > 1 /\ content[1] = "e" /\ content[2] = "e" -> "%"
           [] Head(content) = "e" -> "./s"
           [] Head(content) = "G" -> HttpS
           [] OTHER -> ""

\* DocumentURI.ResolveReference(requested)
ResolveReference(docUrl, requested) ==
    CASE requested = "./s" -> Ok(DocS)
      [] requested = HttpS -> Ok(HttpS)
      [] OTHER -> Failed("")

\* DocumentURI.URL().Scheme
Scheme(uri) == IF uri = HttpS THEN "https" ELSE "file"

RECURSIVE Split(_, _)
\* strings.Split(content, "\n"), cur being the line under way
Split(content, cur) ==
    IF content = <<>> THEN <<cur>>
    ELSE IF Head(content) = LF THEN <<cur>> \o Split(Tail(content), <<>>)
    ELSE Split(Tail(content), Append(cur, Head(content)))

\* TextDocument.lines
lines(content) == Split(content, <<>>)

\* result.DocsForKey(line + 1) and result.DocsForValue(line + 1): a schema
\* documents every key below the directive
DocsFor(schema, ls, line) ==
    IF schema = "ok" /\ line >= 1 /\ ls[line + 1] # <<>> THEN "The test key" ELSE ""

\* the labels of result.SuggestedKeys and result.SuggestedValues
Suggestions(schema) == IF schema = "ok" THEN <<"a">> ELSE <<>>

\* the messages of Validate(...).Errors(): the failure of the resolver
ValidationErrors(schema) == IF schema = "err" THEN <<"schema">> ELSE <<>>

(***************************************************************************)
(* The frames the connection sends (package lsp, Connection) and the       *)
(* results of the handlers of server.go.                                   *)
(***************************************************************************)
EParseError == -32700
EInvalidRequest == -32600
EMethodNotFound == -32601
EInvalidParams == -32602
EInternalError == -32603

TextDocumentSyncIncremental == 2
DiagnosticSeverityError == 1

\* Connection.respond: the frame it hands to c.out; result is the JSON
\* text json.Marshal made of the result of the handler
respond(id, result) == Frame(id, "", <<>>, result, <<>>)

\* respondError that answers with the result null
respondErrorAsResult(id, code, message) ==
    <<Frame(id, "", <<>>, <<"null">>, <<>>)>>

\* Connection.respondError: the frames it hands to c.out
respondError(id, code, message) ==
    <<Frame(id, "", <<>>, <<>>, <<RpcError(code, message)>>)>>

\* Connection.Notify: the frame it hands to c.out
Notify(method, params) == Frame(<<>>, method, params, <<>>, <<>>)

\* json.Marshal(&lsp.InitializeResult{...}) of Server.initialize
InitializeResult ==
    JsonObject(<<
        <<"capabilities",
          JsonObject(<<
            <<"positionEncodingKind", JsonString("utf-16")>>,
            <<"textDocumentSync", Itoa(TextDocumentSyncIncremental)>>,
            <<"completionProvider",
              JsonObject(<< <<"triggerCharacters",
                              JsonArray(<<JsonString("="), JsonString(" ")>>)>> >>)>>,
            <<"hoverProvider", <<"true">>>> >>)>>,
        <<"serverInfo", JsonObject(<< <<"name", JsonString("conl-lsp")>> >>)>> >>)

\* json.Marshal(*lsp.MarkupContent)
MarkupContent(value) ==
    JsonObject(<< <<"kind", JsonString("markdown")>>, <<"value", JsonString(value)>> >>)

\* a Hover with empty contents where textDocumentHover returns nil
HoverResultNeverNull(docs) ==
    JsonObject(<< <<"contents", MarkupContent(docs)>> >>)

\* json.Marshal of the *lsp.Hover that textDocumentHover returns, a nil
\* pointer when there is no documentation
HoverResult(docs) ==
    IF docs = "" THEN <<"null">>
    ELSE JsonObject(<< <<"contents", MarkupContent(docs)>> >>)

\* json.Marshal(*lsp.CompletionList) for the labels
CompletionResult(labels) ==
    JsonObject(<<
        <<"isIncomplete", <<"false">>>>,
        <<"items",
          JsonArray([i \in 1..Len(labels) |->
                        JsonObject(<< <<"label", JsonString(labels[i])>>,
                                      <<"documentation", MarkupContent("")>> >>)])>> >>)

\* json.Marshal(*lsp.PublishDiagnosticsParams); of a diagnostic the
\* severity and the message are kept
PublishDiagnosticsParams(uri, version, messages) ==
    JsonObject(<<
        <<"uri", JsonString(uri)>>,
        <<"version", Itoa(version)>>,
        <<"diagnostics",
          JsonArray([i \in 1..Len(messages) |->
                        JsonObject(<< <<"severity", Itoa(DiagnosticSeverityError)>>,
                                      <<"message", JsonString(messages[i])>> >>)])>> >>)

\* Server.PublishDiagnostics: the frame of the notification
PublishDiagnostics(uri, version, messages) ==
    Notify("textDocument/publishDiagnostics",
           PublishDiagnosticsParams(uri, version, messages))

(***************************************************************************)
(* Spec: Connection.Serve (package lsp) with the handlers of server.go.    *)
(* The read loop of Serve is the reader; the goroutine of Serve that runs  *)
(* WriteFrames is the writer; c.out is unbuffered, so a send is a step     *)
(* that the sender and the writer take together.  A call of                *)
(* schema.Validate under way, with the calls of loadSchema it makes, is a  *)
(* task: the goroutines of updateDiagnostics, and the reader itself while  *)
(* it runs textDocumentHover or textDocumentCompletion.                    *)
(***************************************************************************)
\* most blocks a client sends on the inbound stream
MaxMessages == 3
\* most goroutines of updateDiagnostics alive at a time
MaxTasks == 2

\* a map without entries
NoEntries == [k \in {} |-> k]
\* m[k] = v
Put(m, k, v) == [x \in DOMAIN m \cup {k} |-> IF x = k THEN v ELSE m[x]]
\* delete(m, k)
Delete(m, k) == [x \in DOMAIN m \ {k} |-> m[x]]
\* m[k], the zero value when k is missing
Get(m, k, zero) == IF k \in DOMAIN m THEN m[k] ELSE zero

\* the sequence without its i-th element
Remove(seq, i) == SubSeq(seq, 1, i - 1) \o SubSeq(seq, i + 1, Len(seq))

RECURSIVE SeqOf(_)
\* the elements of a set in the order a range over a map happens to take
SeqOf(S) ==
    IF S = {} THEN <<>>
    ELSE LET x == CHOOSE x \in S : TRUE IN <<x>> \o SeqOf(S \ {x})

\* *TextDocument
Doc(uri, version, content) == [URI |-> uri, Version |-> version, Content |-> content]

\* a call of schema.Validate for the document, at its start
Task(kind, doc, position) ==
    [kind |-> kind, doc |-> doc, position |-> position, pc |-> "start",
     schemaUrl |-> "", shouldLoad |-> FALSE, schema |-> "", parsed |-> <<>>]

\* the read loop between two frames
Idle == [pc |-> "read", recv |-> <<>>, frame |-> <<>>, then |-> ""]

\* the frames a client sends
ClientFrames ==
    { Frame(<<"0">>, "initialize", <<"{", "}">>, <<>>, <<>>),
      Frame(<<"1">>, "shutdown", <<"null">>, <<>>, <<>>),
      Frame(<<>>, "shutdown", <<"null">>, <<>>, <<>>),
      Frame(<<>>, "exit", <<"null">>, <<>>, <<>>),
      Frame(<<"4">>, "x", <<"null">>, <<>>, <<>>),
      DidOpenFrame(DocD, 1, <<"G", LF, "a">>),
      DidOpenFrame(DocS, 1, <<"e">>),
      DidChangeFrame(DocD, 2, <<FullChange(<<"a">>)>>),
      DidCloseFrame(DocD),
      [DidCloseFrame(DocD) EXCEPT !.Id = <<"5">>],
      PositionFrame(<<"2">>, "textDocument/hover", DocD, Position(1, 0)),
      PositionFrame(<<"2">>, "textDocument/hover", DocD, Position(0, 0)),
      Frame(<<"2">>, "textDocument/hover", JsonString("x"), <<>>, <<>>),
      Frame(<<>>, "textDocument/hover", JsonString("x"), <<>>, <<>>),
      [DidChangeFrame(DocD, 2, <<FullChange(<<"a">>)>>) EXCEPT !.Id = <<"6">>],
      PositionFrame(<<"3">>, "textDocument/completion", DocD, Position(1, 0)) }

\* a batch of one request, framed
BatchBlock ==
    LET msg == JsonArray(<<MarshalFrame(Frame(<<"1">>, "shutdown", <<"null">>, <<>>, <<>>))>>)
    IN  <<"Content-Length", ":", " ">> \o Itoa(Len(msg)) \o <<CR, LF, CR, LF>> \o msg

\* what a client writes to the inbound stream, a block at a time
ClientBlocks == {EncodeFrame(f) : f \in ClientFrames} \cup {BatchBlock}

InitServeVars ==
    /\ reader = Idle
    /\ writer = [pc |-> "select", frame |-> <<>>]
    /\ cancelled = FALSE
    /\ errCh = <<>>
    /\ written = <<>>
    /\ received = 0
    /\ serveResult = ""
    /\ fatal = ""
    /\ mutex = ""
    /\ openDocs = NoEntries
    /\ schemasInUse = NoEntries
    /\ httpSchemas = NoEntries
    /\ tasks = <<>>

\* the process runs
Running == fatal = ""

\* the frame handleFrame was called with, and its decoded parameters
Recv == reader.recv[1]
Decoded == DecodeParams(Recv.Method, Recv.Params)

\* c.out <- frame for each of the frames (one at most), and then what
\* follows the send: the return of handleFrame, the call of the
\* notification handler, or the deferred unlock of the mutex
SendThen(frames, then) ==
    reader' = IF frames # <<>>
              THEN [reader EXCEPT !.pc = "send", !.frame = frames, !.then = then]
              ELSE IF then = "notify" THEN [reader EXCEPT !.pc = "notify"]
              ELSE Idle

\* the loop of Serve takes what ReadFrames yields: a frame is dispatched,
\* an error or the end of the stream ends the loop, and cancel() is called
Yielded(y) ==
    IF y.kind = "frame"
    THEN /\ reader' = [Idle EXCEPT !.pc = "dispatch", !.recv = y.frame]
         /\ UNCHANGED <<cancelled, fatal>>
    ELSE IF y.kind = "panic"
    THEN /\ fatal' = y.err
         /\ UNCHANGED <<reader, cancelled>>
    ELSE /\ reader' = [Idle EXCEPT !.pc = "wait"]
         /\ cancelled' = TRUE
         /\ UNCHANGED fatal

\* ReadFrames reads the next block of the inbound stream
ServeRead(block) ==
    /\ Running
    /\ reader.pc = "read"
    /\ received < MaxMessages
    /\ received' = received + 1
    /\ Yielded(ReadFrame(block))
    /\ UNCHANGED <<writer, errCh, written, serveResult, serverVars, otherThanServe>>

\* ReadFrames finds the inbound stream closed at a frame boundary
ServeReadEnd ==
    /\ Running
    /\ reader.pc = "read"
    /\ Yielded(ReadFrame(<<>>))
    /\ UNCHANGED <<writer, errCh, written, received, serveResult, serverVars,
                   otherThanServe>>

\* return <-errCh, once the writer has closed errCh
ServeReturns ==
    /\ Running
    /\ reader.pc = "wait"
    /\ writer.pc = "returned"
    /\ serveResult' = IF errCh = <<>> THEN "nil" ELSE errCh[1]
    /\ errCh' = <<>>
    /\ reader' = [reader EXCEPT !.pc = "done"]
    /\ UNCHANGED <<writer, cancelled, written, received, fatal, serverVars, otherThanServe>>

\* what a step of handleFrame that only answers leaves alone
answerOnly ==
    <<writer, cancelled, errCh, written, received, serveResult, fatal, serverVars,
      otherThanServe>>

\* handleFrame has a frame to dispatch
Dispatching == Running /\ reader.pc = "dispatch"

\* a handler is registered for the method
Registered(method) == method \in RequestMethods \cup NotificationMethods

\* handleFrame, recv.Batch != nil: a batch is rejected
HandleBatch ==
    /\ Dispatching
    /\ Recv.Batch # <<>>
    /\ SendThen(respondError(<<>>, EParseError, "batch requests are not yet supported"),
                "return")
    /\ UNCHANGED answerOnly

\* handleFrame, no handler for recv.Method
HandleNotFound ==
    /\ Dispatching
    /\ Recv.Batch = <<>>
    /\ ~Registered(Recv.Method)
    /\ IF Recv.Id # <<>>
       THEN SendThen(respondError(Recv.Id, EMethodNotFound, Recv.Method \o " not found"),
                     "return")
       ELSE reader' = Idle
    /\ UNCHANGED answerOnly

\* handleFrame, json.Unmarshal of recv.Params fails
HandleInvalidParams ==
    /\ Dispatching
    /\ Recv.Batch = <<>>
    /\ Registered(Recv.Method)
    /\ ~Decoded.ok
    /\ SendThen(respondError(Recv.Id, EInvalidParams, "invalid params"), "return")
    /\ UNCHANGED answerOnly

\* handleFrame, a notification with an id: the error is sent, and then the
\* notification handler is called
HandleNotificationId ==
    /\ Dispatching
    /\ Recv.Batch = <<>>
    /\ Recv.Method \in NotificationMethods
    /\ Decoded.ok
    /\ Recv.Id # <<>>
    /\ SendThen(respondError(Recv.Id, EInvalidRequest, "notification cannot have an 'id'"),
                "notify")
    /\ UNCHANGED answerOnly

\* handleFrame, a request without id: nothing is called
HandleRequestNoId ==
    /\ Dispatching
    /\ Recv.Batch = <<>>
    /\ Recv.Method \in RequestMethods
    /\ Decoded.ok
    /\ Recv.Id = <<>>
    /\ reader' = Idle
    /\ UNCHANGED answerOnly

\* handleFrame calls the notification handler of the method
Notified(method) ==
    /\ Running
    /\ reader.pc \in {"dispatch", "notify"}
    /\ Recv.Batch = <<>>
    /\ Recv.Method = method
    /\ Decoded.ok
    /\ reader.pc = "dispatch" => Recv.Id = <<>>

\* handleFrame calls the request handler of the method
Requested(method) ==
    /\ Dispatching
    /\ Recv.Batch = <<>>
    /\ Recv.Method = method
    /\ Decoded.ok
    /\ Recv.Id # <<>>

\* Server.initialize, and the respond of handleFrame
initialize ==
    /\ Requested("initialize")
    /\ SendThen(<<respond(Recv.Id, InitializeResult)>>, "return")
    /\ UNCHANGED answerOnly

\* Server.shutdown, and the respond of handleFrame
shutdown ==
    /\ Requested("shutdown")
    /\ SendThen(<<respond(Recv.Id, <<"null">>)>>, "return")
    /\ UNCHANGED answerOnly

\* Server.exit: Connection.Exit calls cancel()
exit ==
    /\ Notified("exit")
    /\ cancelled' = TRUE
    /\ reader' = Idle
    /\ UNCHANGED <<writer, errCh, written, received, serveResult, fatal, serverVars,
                   otherThanServe>>

\* the goroutines of updateDiagnostics among the tasks
Diagnosing == {i \in 1..Len(tasks) : tasks[i].kind = "diagnostics"}

\* Server.textDocumentDidOpen for the decoded parameters
DidOpen(params) ==
    /\ params # <<>>
    /\ mutex = ""
    /\ Cardinality(Diagnosing) < MaxTasks
    /\ openDocs' = Put(openDocs, params[1].URI,
                       Doc(params[1].URI, params[1].Version,
                           NewTextDocument(params[1].Text)))
    /\ tasks' = Append(tasks, Task("diagnostics", openDocs'[params[1].URI], Position(0, 0)))
    /\ reader' = Idle
    /\ UNCHANGED <<writer, cancelled, errCh, written, received, serveResult, fatal,
                   mutex, schemasInUse, httpSchemas, otherThanServe>>

textDocumentDidOpen ==
    /\ Notified("textDocument/didOpen")
    /\ DidOpen(Decoded.val)

RECURSIVE ApplyChangesReversed(_, _)
\* the loop of textDocumentDidChange that applies the last change first
ApplyChangesReversed(content, changes) ==
    IF changes = <<>> THEN content
    ELSE applyChange(ApplyChangesReversed(content, Tail(changes)), Head(changes))

RECURSIVE ApplyChanges(_, _)
\* the loop of textDocumentDidChange over params.ContentChanges
ApplyChanges(content, changes) ==
    IF changes = <<>> THEN content
    ELSE ApplyChanges(applyChange(content, Head(changes)), Tail(changes))

\* textDocumentDidChange that validates no other document
DependentsNone(docs, uri) == <<>>

\* the documents textDocumentDidChange starts updateDiagnostics for, after
\* newDoc: those whose edge in schemasInUse is the changed uri
Dependents(docs, uri) ==
    SeqOf({d \in DOMAIN schemasInUse : schemasInUse[d] = uri /\ d \in DOMAIN docs})

\* textDocumentDidChange that opens a document that is not open
DidChangeOpens(params) ==
    /\ params # <<>>
    /\ mutex = ""
    /\ Cardinality(Diagnosing) < MaxTasks
    /\ openDocs' = Put(openDocs, params[1].URI,
                       Doc(params[1].URI, params[1].Version,
                           ApplyChanges(Get(openDocs, params[1].URI,
                                            Doc("", 0, <<>>)).Content,
                                        params[1].ContentChanges)))
    /\ tasks' = Append(tasks, Task("diagnostics", openDocs'[params[1].URI], Position(0, 0)))
    /\ reader' = Idle
    /\ UNCHANGED <<writer, cancelled, errCh, written, received, serveResult, fatal,
                   mutex, schemasInUse, httpSchemas, otherThanServe>>

\* textDocumentDidChange that validates a document that is not open
DidChangeValidates(params) ==
    /\ params # <<>>
    /\ mutex = ""
    /\ Cardinality(Diagnosing) < MaxTasks
    /\ tasks' = Append(tasks, Task("diagnostics",
                                   Doc(params[1].URI, params[1].Version,
                                       ApplyChanges(Get(openDocs, params[1].URI,
                                                        Doc("", 0, <<>>)).Content,
                                                    params[1].ContentChanges)),
                                   Position(0, 0)))
    /\ reader' = Idle
    /\ UNCHANGED <<writer, cancelled, errCh, written, received, serveResult, fatal,
                   mutex, openDocs, schemasInUse, httpSchemas, otherThanServe>>

\* textDocumentDidChange that edits the stored document in place: every
\* goroutine that holds the document sees the new version and content
DidChangeInPlace(params) ==
    /\ params # <<>>
    /\ mutex = ""
    /\ IF params[1].URI \notin DOMAIN openDocs
       THEN UNCHANGED <<openDocs, tasks>>
       ELSE /\ openDocs' = Put(openDocs, params[1].URI,
                               Doc(params[1].URI, params[1].Version,
                                   ApplyChanges(openDocs[params[1].URI].Content,
                                                params[1].ContentChanges)))
            /\ Len(openDocs'[params[1].URI].Content) <= MaxLen
            /\ tasks' = [i \in 1..Len(tasks) |->
                            IF tasks[i].doc = openDocs[params[1].URI]
                            THEN [tasks[i] EXCEPT !.doc = openDocs'[params[1].URI]]
                            ELSE tasks[i]]
                        \o <<Task("diagnostics", openDocs'[params[1].URI],
                                  Position(0, 0))>>
                        \o [i \in 1..Len(Dependents(openDocs', params[1].URI)) |->
                              Task("diagnostics",
                                   openDocs'[Dependents(openDocs', params[1].URI)[i]],
                                   Position(0, 0))]
            /\ Cardinality({i \in 1..Len(tasks') : tasks'[i].kind = "diagnostics"})
                    <= MaxTasks
    /\ reader' = Idle
    /\ UNCHANGED <<writer, cancelled, errCh, written, received, serveResult, fatal,
                   mutex, schemasInUse, httpSchemas, otherThanServe>>

\* Server.textDocumentDidChange for the decoded parameters
DidChange(params) ==
    /\ params # <<>>
    /\ mutex = ""
    /\ IF params[1].URI \notin DOMAIN openDocs
       THEN UNCHANGED <<openDocs, tasks>>
       ELSE /\ openDocs' = Put(openDocs, params[1].URI,
                               Doc(params[1].URI, params[1].Version,
                                   ApplyChanges(openDocs[params[1].URI].Content,
                                                params[1].ContentChanges)))
            /\ Len(openDocs'[params[1].URI].Content) <= MaxLen
            /\ tasks' = Append(tasks, Task("diagnostics", openDocs'[params[1].URI],
                                           Position(0, 0)))
                        \o [i \in 1..Len(Dependents(openDocs', params[1].URI)) |->
                              Task("diagnostics",
                                   openDocs'[Dependents(openDocs', params[1].URI)[i]],
                                   Position(0, 0))]
            /\ Cardinality({i \in 1..Len(tasks') : tasks'[i].kind = "diagnostics"})
                    <= MaxTasks
    /\ reader' = Idle
    /\ UNCHANGED <<writer, cancelled, errCh, written, received, serveResult, fatal,
                   mutex, schemasInUse, httpSchemas, otherThanServe>>

textDocumentDidChange ==
    /\ Notified("textDocument/didChange")
    /\ DidChange(Decoded.val)

\* textDocumentDidClose that leaves the edge of the document in place
DidCloseKeepsEdge(params) ==
    /\ params # <<>>
    /\ mutex = ""
    /\ openDocs' = Delete(openDocs, params[1].URI)
    /\ mutex' = "reader"
    /\ SendThen(<<PublishDiagnostics(params[1].URI, params[1].Version, <<>>)>>, "unlock")
    /\ UNCHANGED <<writer, cancelled, errCh, written, received, serveResult, fatal,
                   schemasInUse, httpSchemas, tasks, otherThanServe>>

\* Server.textDocumentDidClose for the decoded parameters: the mutex is
\* held until the notification has been handed to c.out
DidClose(params) ==
    /\ params # <<>>
    /\ mutex = ""
    /\ openDocs' = Delete(openDocs, params[1].URI)
    /\ schemasInUse' = Delete(schemasInUse, params[1].URI)
    /\ mutex' = "reader"
    /\ SendThen(<<PublishDiagnostics(params[1].URI, params[1].Version, <<>>)>>, "unlock")
    /\ UNCHANGED <<writer, cancelled, errCh, written, received, serveResult, fatal,
                   httpSchemas, tasks, otherThanServe>>

textDocumentDidClose ==
    /\ Notified("textDocument/didClose")
    /\ DidClose(Decoded.val)

\* the error of a handler for a document that is not open
NotFound(uri) == "document " \o uri \o " not found"

\* the error of a handler for a line the document does not have
InvalidPosition(line, ls) ==
    "invalid position: " \o ToString(line) \o " >= " \o ToString(Len(ls))

\* Server.textDocumentHover up to schema.Validate, for the decoded parameters
Hover(params) ==
    /\ params # <<>>
    /\ IF params[1].URI \notin DOMAIN openDocs
       THEN /\ SendThen(respondError(Recv.Id, EInternalError, NotFound(params[1].URI)),
                        "return")
            /\ UNCHANGED tasks
       ELSE /\ reader' = [reader EXCEPT !.pc = "validate"]
            /\ tasks' = Append(tasks, Task("hover", openDocs[params[1].URI],
                                           params[1].Position))
    /\ UNCHANGED <<writer, cancelled, errCh, written, received, serveResult, fatal,
                   mutex, openDocs, schemasInUse, httpSchemas, otherThanServe>>

textDocumentHover ==
    /\ Requested("textDocument/hover")
    /\ Hover(Decoded.val)

\* Server.textDocumentCompletion up to schema.Validate
Completion(params) ==
    /\ params # <<>>
    /\ IF params[1].URI \notin DOMAIN openDocs
       THEN /\ SendThen(respondError(Recv.Id, EInternalError, NotFound(params[1].URI)),
                        "return")
            /\ UNCHANGED tasks
       ELSE IF params[1].Position.Line >= Len(lines(openDocs[params[1].URI].Content))
       THEN /\ SendThen(respondError(Recv.Id, EInternalError,
                                     InvalidPosition(params[1].Position.Line,
                                                     lines(openDocs[params[1].URI].Content))),
                        "return")
            /\ UNCHANGED tasks
       ELSE /\ reader' = [reader EXCEPT !.pc = "validate"]
            /\ tasks' = Append(tasks, Task("completion", openDocs[params[1].URI],
                                           params[1].Position))
    /\ UNCHANGED <<writer, cancelled, errCh, written, received, serveResult, fatal,
                   mutex, openDocs, schemasInUse, httpSchemas, otherThanServe>>

textDocumentCompletion ==
    /\ Requested("textDocument/completion")
    /\ Completion(Decoded.val)

\* what a step of loadSchema on the maps of the server leaves alone
loadOnly ==
    <<reader, writer, cancelled, errCh, written, received, serveResult, fatal, mutex,
      openDocs, otherThanServe>>

\* the task with loadSchema returned: schema is "any" for schema.Any(),
\* "ok" for a parsed schema, "err" for an error
Validated(t, schema) == [t EXCEPT !.pc = "validated", !.schema = schema]

\* loadSchema, the first critical section, that keeps the edge of a
\* document without reference
LoadSchemaEdgeKeepsEdge(t, requested, schemaUrl) ==
    IF requested = "" THEN <<schemasInUse, Validated(t, "any")>>
    ELSE IF ~schemaUrl.ok THEN <<Delete(schemasInUse, t.doc.URI), Validated(t, "err")>>
    ELSE <<Put(schemasInUse, t.doc.URI, schemaUrl.val),
           [t EXCEPT !.pc = "lookup", !.schemaUrl = schemaUrl.val,
                     !.shouldLoad = Get(schemasInUse, t.doc.URI, "") # schemaUrl.val]>>

\* loadSchema, the first critical section, that keeps the edge of a
\* document whose reference cannot be parsed
LoadSchemaEdgeKeepsOnError(t, requested, schemaUrl) ==
    IF requested = "" THEN <<Delete(schemasInUse, t.doc.URI), Validated(t, "any")>>
    ELSE IF ~schemaUrl.ok THEN <<schemasInUse, Validated(t, "err")>>
    ELSE <<Put(schemasInUse, t.doc.URI, schemaUrl.val),
           [t EXCEPT !.pc = "lookup", !.schemaUrl = schemaUrl.val,
                     !.shouldLoad = Get(schemasInUse, t.doc.URI, "") # schemaUrl.val]>>

\* loadSchema up to the unlock of its first critical section, for the
\* requested name and what ResolveReference made of it: schemasInUse and
\* the task afterwards
LoadSchemaEdge(t, requested, schemaUrl) ==
    IF requested = "" THEN <<Delete(schemasInUse, t.doc.URI), Validated(t, "any")>>
    ELSE IF ~schemaUrl.ok THEN <<Delete(schemasInUse, t.doc.URI), Validated(t, "err")>>
    ELSE <<Put(schemasInUse, t.doc.URI, schemaUrl.val),
           [t EXCEPT !.pc = "lookup", !.schemaUrl = schemaUrl.val,
                     !.shouldLoad = Get(schemasInUse, t.doc.URI, "") # schemaUrl.val]>>

\* the first critical section of loadSchema has made e of schemasInUse and
\* of the i-th task
Resolved(i, e) ==
    /\ schemasInUse' = e[1]
    /\ tasks' = [tasks EXCEPT ![i] = e[2]]

\* schema.Validate calls loadSchema(doc.URI, name) for the reference of the
\* content
LoadSchema(i) ==
    /\ Running
    /\ tasks[i].pc = "start"
    /\ mutex = ""
    /\ Resolved(i, LoadSchemaEdge(tasks[i], SchemaRef(tasks[i].doc.Content),
                                  ResolveReference(tasks[i].doc.URI,
                                                   SchemaRef(tasks[i].doc.Content))))
    /\ UNCHANGED <<httpSchemas, loadOnly>>

\* loadSchema, s.openDocs[schemaUrl] read without the mutex, and the file
\* read: the task afterwards; read is what os.ReadFile does, and parsed
\* keeps the content of the open document that schema.Parse was given
LoadSchemaLookup(t, read) ==
    IF t.schemaUrl \in DOMAIN openDocs
    THEN [Validated(t, "ok") EXCEPT !.parsed = <<openDocs[t.schemaUrl].Content>>]
    ELSE IF Scheme(t.schemaUrl) = "file" THEN Validated(t, read)
    ELSE IF Scheme(t.schemaUrl) \in {"https", "http"} THEN [t EXCEPT !.pc = "cache"]
    ELSE Validated(t, "err")

LoadSchemaOpenDoc(i, read) ==
    /\ Running
    /\ tasks[i].pc = "lookup"
    /\ read = "err" => /\ tasks[i].schemaUrl \notin DOMAIN openDocs
                       /\ Scheme(tasks[i].schemaUrl) = "file"
    /\ tasks' = [tasks EXCEPT ![i] = LoadSchemaLookup(tasks[i], read)]
    /\ UNCHANGED <<schemasInUse, httpSchemas, loadOnly>>

\* the read loop is about to write s.openDocs in textDocumentDidOpen,
\* textDocumentDidChange or textDocumentDidClose
WritingOpenDocs ==
    /\ reader.pc \in {"dispatch", "notify"}
    /\ Recv.Batch = <<>>
    /\ Decoded.ok
    /\ Decoded.val # <<>>
    /\ reader.pc = "dispatch" => Recv.Id = <<>>
    /\ \/ Recv.Method \in {"textDocument/didOpen", "textDocument/didClose"}
       \/ /\ Recv.Method = "textDocument/didChange"
          /\ Decoded.val[1].URI \in DOMAIN openDocs

\* loadSchema reads s.openDocs[schemaUrl] in the goroutine of
\* updateDiagnostics, without the mutex, while the read loop writes
\* s.openDocs: besides the two orders of the accesses, the runtime may end
\* the process with "concurrent map read and map write"
ConcurrentMapAccess(i) ==
    /\ Running
    /\ tasks[i].kind = "diagnostics"
    /\ tasks[i].pc = "lookup"
    /\ WritingOpenDocs
    /\ mutex = ""
    /\ fatal' = "concurrent map read and map write"
    /\ UNCHANGED <<reader, writer, cancelled, errCh, written, received, serveResult,
                   serverVars, otherThanServe>>

\* loadSchema that returns every cached failure, also to a document whose
\* edge has just changed
LoadSchemaCacheKeepsFailure(t) ==
    IF t.schemaUrl \in DOMAIN httpSchemas
    THEN Validated(t, httpSchemas[t.schemaUrl])
    ELSE [t EXCEPT !.pc = "fetch"]

\* loadSchema, the critical section that reads s.httpSchemas[schemaUrl],
\* and the decision to fetch: the task afterwards
LoadSchemaCache(t) ==
    IF t.schemaUrl \in DOMAIN httpSchemas /\ httpSchemas[t.schemaUrl] = "ok"
    THEN Validated(t, "ok")
    ELSE IF t.schemaUrl \in DOMAIN httpSchemas /\ ~t.shouldLoad
    THEN Validated(t, "err")
    ELSE [t EXCEPT !.pc = "fetch"]

LoadSchemaCached(i) ==
    /\ Running
    /\ tasks[i].pc = "cache"
    /\ mutex = ""
    /\ tasks' = [tasks EXCEPT ![i] = LoadSchemaCache(tasks[i])]
    /\ UNCHANGED <<schemasInUse, httpSchemas, loadOnly>>

\* Server.loadHTTPSchema: the fetch and the parse end well or with an error
loadHTTPSchema(i, fetched) ==
    /\ Running
    /\ tasks[i].pc = "fetch"
    /\ tasks' = [tasks EXCEPT ![i] = [@ EXCEPT !.pc = "store", !.schema = fetched]]
    /\ UNCHANGED <<schemasInUse, httpSchemas, loadOnly>>

\* loadSchema, the critical section that stores what was fetched
LoadSchemaStore(i) ==
    /\ Running
    /\ tasks[i].pc = "store"
    /\ mutex = ""
    /\ httpSchemas' = Put(httpSchemas, tasks[i].schemaUrl, tasks[i].schema)
    /\ tasks' = [tasks EXCEPT ![i] = Validated(@, @.schema)]
    /\ UNCHANGED <<schemasInUse, loadOnly>>

RECURSIVE Indent(_)
\* the leading blanks and tabs of a line, in bytes
Indent(line) ==
    IF line # <<>> /\ Head(line) \in {" ", "\t"} THEN 1 + Indent(Tail(line)) ELSE 0

\* strings.Trim(prefix, " \t") is not empty and does not start a comment
IsParent(prefix) ==
    /\ \E k \in 1..Len(prefix) : prefix[k] \notin {" ", "\t"}
    /\ prefix[CHOOSE k \in 1..Len(prefix) :
                /\ prefix[k] \notin {" ", "\t"}
                /\ \A j \in 1..(k - 1) : prefix[j] \in {" ", "\t"}] # ";"

RECURSIVE ParentLineFrom(_, _, _)
\* the loop of getParentLine at line lno for the indent p: for a line
\* shorter than p the loop goes on with lno unchanged and never ends
ParentLineFrom(ls, lno, p) ==
    IF lno < 0 THEN [returns |-> TRUE, lno |-> lno]
    ELSE IF ByteLen(ls[lno + 1]) < p THEN [returns |-> FALSE, lno |-> lno]
    ELSE IF IsParent(RangeTo(ls[lno + 1], p)) THEN [returns |-> TRUE, lno |-> lno]
    ELSE ParentLineFrom(ls, lno - 1, p)

\* getParentLine(lines, lno)
getParentLine(ls, lno) == ParentLineFrom(ls, lno - 1, Indent(ls[lno + 1]))

\* getParentLine(t.lines(), lno) is called for the content; the call
\* returns a line number or never returns
TdGetParentLine(lno) ==
    /\ tdLast.op = "new"
    /\ tdLast' = [op |-> IF getParentLine(lines(tdContent), lno).returns
                         THEN "getParentLine" ELSE "getParentLine runs for ever",
                  old |-> tdContent, change |-> FullChange(<<>>),
                  pos |-> Position(lno, 0),
                  ix |-> getParentLine(lines(tdContent), lno).lno]
    /\ UNCHANGED tdContent
    /\ UNCHANGED otherThanText

\* textDocumentHover after schema.Validate: the frames handleFrame sends
HoverReply(id, t) ==
    IF t.position.Line >= Len(lines(t.doc.Content))
    THEN respondError(id, EInternalError,
                      InvalidPosition(t.position.Line, lines(t.doc.Content)))
    ELSE <<respond(id, HoverResult(DocsFor(t.schema, lines(t.doc.Content),
                                           t.position.Line)))>>

\* what a reply after schema.Validate leaves alone
replyOnly ==
    <<writer, cancelled, errCh, written, received, serveResult, fatal, mutex, openDocs,
      schemasInUse, httpSchemas, otherThanServe>>

\* textDocumentHover returns and handleFrame responds
HoverReturns(i) ==
    /\ Running
    /\ reader.pc = "validate"
    /\ tasks[i].kind = "hover"
    /\ tasks[i].pc = "validated"
    /\ SendThen(HoverReply(Recv.Id, tasks[i]), "return")
    /\ tasks' = Remove(tasks, i)
    /\ UNCHANGED replyOnly

\* textDocumentCompletion returns and handleFrame responds, unless
\* getParentLine never returns
CompletionReturns(i) ==
    /\ Running
    /\ reader.pc = "validate"
    /\ tasks[i].kind = "completion"
    /\ tasks[i].pc = "validated"
    /\ IF getParentLine(lines(tasks[i].doc.Content), tasks[i].position.Line).returns
       THEN SendThen(<<respond(Recv.Id, CompletionResult(Suggestions(tasks[i].schema)))>>,
                     "return")
       ELSE reader' = [reader EXCEPT !.pc = "getParentLine"]
    /\ tasks' = Remove(tasks, i)
    /\ UNCHANGED replyOnly

\* updateDiagnostics that publishes without the version of its document
DiagnosticsFrameWithoutVersion(t) ==
    PublishDiagnostics(t.doc.URI, 0, ValidationErrors(t.schema))

\* updateDiagnostics after schema.Validate: the frame of its notification
DiagnosticsFrame(t) ==
    PublishDiagnostics(t.doc.URI, t.doc.Version, ValidationErrors(t.schema))

\* a send of the reader that WriteFrames takes while it is still writing
SendReplyWhileWriting ==
    /\ Running
    /\ reader.pc = "send"
    /\ writer.pc \in {"select", "write"}
    /\ writer' = [pc |-> "write", frame |-> reader.frame]
    /\ reader' = IF reader.then = "notify"
                 THEN [reader EXCEPT !.pc = "notify", !.frame = <<>>, !.then = ""]
                 ELSE Idle
    /\ mutex' = IF reader.then = "unlock" THEN "" ELSE mutex
    /\ UNCHANGED <<cancelled, errCh, written, received, serveResult, fatal, openDocs,
                   schemasInUse, httpSchemas, tasks, otherThanServe>>

\* c.out <- frame of the reader meets frame := <-ch of WriteFrames
SendReply ==
    /\ Running
    /\ reader.pc = "send"
    /\ writer.pc = "select"
    /\ writer' = [pc |-> "write", frame |-> reader.frame]
    /\ reader' = IF reader.then = "notify"
                 THEN [reader EXCEPT !.pc = "notify", !.frame = <<>>, !.then = ""]
                 ELSE Idle
    /\ mutex' = IF reader.then = "unlock" THEN "" ELSE mutex
    /\ UNCHANGED <<cancelled, errCh, written, received, serveResult, fatal, openDocs,
                   schemasInUse, httpSchemas, tasks, otherThanServe>>

\* c.out <- frame of Notify in updateDiagnostics meets frame := <-ch of
\* WriteFrames, and the goroutine ends
SendDiagnostics(i) ==
    /\ Running
    /\ tasks[i].kind = "diagnostics"
    /\ tasks[i].pc = "validated"
    /\ writer.pc = "select"
    /\ writer' = [pc |-> "write", frame |-> <<DiagnosticsFrame(tasks[i])>>]
    /\ tasks' = Remove(tasks, i)
    /\ UNCHANGED <<reader, cancelled, errCh, written, received, serveResult, fatal, mutex,
                   openDocs, schemasInUse, httpSchemas, otherThanServe>>

\* what a step of the writer alone leaves alone
writeOnly ==
    <<reader, cancelled, received, serveResult, fatal, serverVars, otherThanServe>>

\* WriteFrames writes the header and the payload of the frame
WriteFrame ==
    /\ Running
    /\ writer.pc = "write"
    /\ written' = Append(written, writer.frame[1])
    /\ writer' = [pc |-> "select", frame |-> <<>>]
    /\ UNCHANGED <<errCh, writeOnly>>

\* a write fails: WriteFrames returns the error, which goes to errCh, and
\* the goroutine closes the outbound stream and errCh
WriteFails ==
    /\ Running
    /\ writer.pc = "write"
    /\ errCh' = <<"write error">>
    /\ writer' = [pc |-> "returned", frame |-> <<>>]
    /\ UNCHANGED <<written, writeOnly>>

\* WriteFrames takes <-ctx.Done() and returns nil; the goroutine closes
\* the outbound stream and errCh
WriterReturns ==
    /\ Running
    /\ writer.pc = "select"
    /\ cancelled
    /\ writer' = [pc |-> "returned", frame |-> <<>>]
    /\ UNCHANGED <<errCh, written, writeOnly>>

(***************************************************************************)
(* The specifications.                                                     *)
(***************************************************************************)
vars == <<textVars, frameVars, connVars, serverVars>>

IdleText == tdContent = <<>> /\ tdLast = NoCall

IdleFrames ==
    /\ fcToSend = <<>> /\ fcSent = <<>> /\ fcWire = <<>>
    /\ fcClosed = FALSE /\ fcYields = <<>> /\ fcEnd = ""

InitText == InitTextVars /\ IdleFrames /\ InitServeVars
NextText ==
    \/ \E text \in ChangeTexts : TdApplyChange(FullChange(text))
    \/ \E text \in ChangeTexts, s \in Positions, e \in Positions :
          TdApplyChange(RangedChange(s, e, text))
    \/ \E ix \in 0..ByteLen(tdContent) : TdUnresolve(ix)
    \/ \E p \in Positions : TdResolve(p)
    \/ TdResolveLast
    \/ TdReturn
SpecText == InitText /\ [][NextText]_vars

InitFrames == InitFrameVars /\ IdleText /\ InitServeVars
NextFrames ==
    \/ FcWriteFrame
    \/ FcClose
    \/ FcReadFrame
SpecFrames == InitFrames /\ [][NextFrames]_vars

Init == InitServeVars /\ IdleText /\ IdleFrames
Next ==
    \/ \E block \in ClientBlocks : ServeRead(block)
    \/ ServeReadEnd
    \/ ServeReturns
    \/ HandleBatch
    \/ HandleNotFound
    \/ HandleInvalidParams
    \/ HandleNotificationId
    \/ HandleRequestNoId
    \/ initialize
    \/ shutdown
    \/ exit
    \/ textDocumentDidOpen
    \/ textDocumentDidChange
    \/ textDocumentDidClose
    \/ textDocumentHover
    \/ textDocumentCompletion
    \/ \E i \in 1..Len(tasks) : LoadSchema(i)
    \/ \E i \in 1..Len(tasks), read \in {"ok", "err"} : LoadSchemaOpenDoc(i, read)
    \/ \E i \in 1..Len(tasks) : ConcurrentMapAccess(i)
    \/ \E i \in 1..Len(tasks) : LoadSchemaCached(i)
    \/ \E i \in 1..Len(tasks), fetched \in {"ok", "err"} : loadHTTPSchema(i, fetched)
    \/ \E i \in 1..Len(tasks) : LoadSchemaStore(i)
    \/ \E i \in 1..Len(tasks) : HoverReturns(i)
    \/ \E i \in 1..Len(tasks) : CompletionReturns(i)
    \/ SendReply
    \/ \E i \in 1..Len(tasks) : SendDiagnostics(i)
    \/ WriteFrame
    \/ WriteFails
    \/ WriterReturns
Spec == Init /\ [][Next]_vars

\* SpecDiagnostics: Serve with a client that only opens and changes
\* documents: a document that refers to the schema file:///s, opened and
\* opened again, and the document file:///s, opened and changed
DiagnosticsFrames ==
    { DidOpenFrame(DocD, 1, <<"e">>),
      DidOpenFrame(DocD, 2, <<"e", LF, "a">>),
      DidOpenFrame(DocS, 1, <<"a", "a">>),
      DidChangeFrame(DocS, 2, <<FullChange(<<"a">>)>>) }
DiagnosticsBlocks == {EncodeFrame(f) : f \in DiagnosticsFrames}

\* the steps of the goroutines of updateDiagnostics and of the goroutine
\* of WriteFrames
NextUpdateDiagnostics ==
    \/ \E i \in 1..Len(tasks) : LoadSchema(i)
    \/ \E i \in 1..Len(tasks), read \in {"ok", "err"} : LoadSchemaOpenDoc(i, read)
    \/ \E i \in 1..Len(tasks) : SendDiagnostics(i)
    \/ WriteFrame

NextDiagnostics ==
    \/ \E block \in DiagnosticsBlocks : ServeRead(block)
    \/ ServeReadEnd
    \/ ServeReturns
    \/ textDocumentDidOpen
    \/ textDocumentDidChange
    \/ \E i \in 1..Len(tasks) : ConcurrentMapAccess(i)
    \/ WriteFails
    \/ WriterReturns
    \/ NextUpdateDiagnostics

\* the goroutines are scheduled: a step of updateDiagnostics or of
\* WriteFrames that stays possible is taken, and a read of a file returns
SpecDiagnostics == Init /\ [][NextDiagnostics]_vars /\ WF_vars(NextUpdateDiagnostics)

\* SpecChanges: Serve with a client that opens file:///d, changes it with
\* two edits in one notification, the second of which is resolved against
\* what the first has made, changes it again, and asks for a hover
TwoEdits ==
    << FullChange(<<"e", "a">>),
       RangedChange(Position(0, 0), Position(0, 1), <<"G">>) >>
ChangesFrames ==
    { DidOpenFrame(DocD, 1, <<"a">>),
      DidChangeFrame(DocD, 2, TwoEdits),
      DidChangeFrame(DocD, 3, <<FullChange(<<"a", CR, LF>>)>>),
      PositionFrame(<<"2">>, "textDocument/hover", DocD, Position(0, 0)) }
ChangesBlocks == {EncodeFrame(f) : f \in ChangesFrames}

NextChanges ==
    \/ \E block \in ChangesBlocks : ServeRead(block)
    \/ ServeReadEnd
    \/ ServeReturns
    \/ textDocumentDidOpen
    \/ textDocumentDidChange
    \/ textDocumentHover
    \/ \E i \in 1..Len(tasks) : LoadSchema(i)
    \/ \E i \in 1..Len(tasks), read \in {"ok", "err"} : LoadSchemaOpenDoc(i, read)
    \/ \E i \in 1..Len(tasks) : ConcurrentMapAccess(i)
    \/ \E i \in 1..Len(tasks) : LoadSchemaCached(i)
    \/ \E i \in 1..Len(tasks), fetched \in {"ok", "err"} : loadHTTPSchema(i, fetched)
    \/ \E i \in 1..Len(tasks) : LoadSchemaStore(i)
    \/ \E i \in 1..Len(tasks) : HoverReturns(i)
    \/ SendReply
    \/ \E i \in 1..Len(tasks) : SendDiagnostics(i)
    \/ WriteFrame
    \/ WriteFails
    \/ WriterReturns
SpecChanges == Init /\ [][NextChanges]_vars

\* SpecSchemas: Serve with a client that opens documents for their schema
\* directives: file:///d with a reference to https://h/s, twice, then with
\* a reference to the sibling file s and with a reference that cannot be
\* parsed, and file:///s with a reference to https://h/s
SchemasFrames ==
    { DidOpenFrame(DocD, 1, <<"G">>),
      DidOpenFrame(DocD, 2, <<"G", "a">>),
      DidOpenFrame(DocS, 1, <<"G">>),
      DidOpenFrame(DocD, 3, <<"e">>),
      DidOpenFrame(DocD, 4, <<"e", "e">>) }
SchemasBlocks == {EncodeFrame(f) : f \in SchemasFrames}

NextSchemas ==
    \/ \E block \in SchemasBlocks : ServeRead(block)
    \/ ServeReadEnd
    \/ ServeReturns
    \/ textDocumentDidOpen
    \/ \E i \in 1..Len(tasks) : LoadSchema(i)
    \/ \E i \in 1..Len(tasks), read \in {"ok", "err"} : LoadSchemaOpenDoc(i, read)
    \/ \E i \in 1..Len(tasks) : ConcurrentMapAccess(i)
    \/ \E i \in 1..Len(tasks) : LoadSchemaCached(i)
    \/ \E i \in 1..Len(tasks), fetched \in {"ok", "err"} : loadHTTPSchema(i, fetched)
    \/ \E i \in 1..Len(tasks) : LoadSchemaStore(i)
    \/ \E i \in 1..Len(tasks) : SendDiagnostics(i)
    \/ WriteFrame
    \/ WriteFails
    \/ WriterReturns
SpecSchemas == Init /\ [][NextSchemas]_vars

\* SpecRead: ReadFrames on an inbound stream that a client has written and
\* closed: nothing or one well-formed frame, followed by nothing, by a
\* block whose header is malformed, or by a well-formed frame cut short
GoodMessage == MarshalFrame(Frame(<<"1">>, "shutdown", <<"null">>, <<>>, <<>>))
GoodBlock == EncodeFrame(Frame(<<"1">>, "shutdown", <<"null">>, <<>>, <<>>))

\* a header line without a colon, in front of a well-formed block and alone
NoColonBlocks ==
    { <<"X", CR, LF>> \o GoodBlock,
      <<"X", CR, LF, CR, LF>> \o GoodMessage }
\* no Content-Length header
NoLengthBlocks ==
    { <<"Content-Type", ":", " ", "x", CR, LF, CR, LF>> \o GoodMessage }
\* a Content-Length that is not a non-negative integer
BadLengthBlocks ==
    { <<"Content-Length", ":", " ", "x", CR, LF, CR, LF>> \o GoodMessage,
      <<"Content-Length", ":", " ", CR, LF, CR, LF>> \o GoodMessage,
      <<"Content-Length", ":", " ", "-", "1", CR, LF, CR, LF>> \o GoodMessage }
MalformedBlocks == NoColonBlocks \cup NoLengthBlocks \cup BadLengthBlocks

\* the well-formed block cut after k of its tokens
Truncations == {SubSeq(GoodBlock, 1, k) : k \in 1..(Len(GoodBlock) - 1)}

InboundStreams ==
    {first \o last : first \in {<<>>, GoodBlock},
                     last \in {<<>>} \cup MalformedBlocks \cup Truncations}

InitRead ==
    /\ fcToSend = <<>>
    /\ fcSent = <<>>
    /\ fcWire \in InboundStreams
    /\ fcClosed = TRUE
    /\ fcYields = <<>>
    /\ fcEnd = ""
    /\ IdleText
    /\ InitServeVars
NextRead == FcReadFrame
SpecRead == InitRead /\ [][NextRead]_vars

\* SpecParent: getParentLine applied to the lines of every content of
\* blanks, comment signs, letters and newlines, at every line
ParentContents == SeqsUpTo({" ", ";", "a", LF}, MaxLen)
InitParent ==
    /\ tdContent \in ParentContents
    /\ tdLast = NoCall
    /\ IdleFrames
    /\ InitServeVars
NextParent ==
    \/ \E lno \in 0..(Len(lines(tdContent)) - 1) : TdGetParentLine(lno)
    \/ TdReturn
SpecParent == InitParent /\ [][NextParent]_vars

\* SpecLifecycle: Serve with a client that sends initialize, shutdown and
\* exit, the last two with the member params null and without it
LifecycleFrames ==
    { Frame(<<"0">>, "initialize", <<"{", "}">>, <<>>, <<>>),
      Frame(<<"1">>, "shutdown", <<"null">>, <<>>, <<>>),
      Frame(<<"1">>, "shutdown", <<>>, <<>>, <<>>),
      Frame(<<>>, "exit", <<"null">>, <<>>, <<>>),
      Frame(<<>>, "exit", <<>>, <<>>, <<>>) }
LifecycleBlocks == {EncodeFrame(f) : f \in LifecycleFrames}

NextLifecycle ==
    \/ \E block \in LifecycleBlocks : ServeRead(block)
    \/ ServeReadEnd
    \/ ServeReturns
    \/ HandleInvalidParams
    \/ initialize
    \/ shutdown
    \/ exit
    \/ SendReply
    \/ WriteFrame
    \/ WriteFails
    \/ WriterReturns
SpecLifecycle == Init /\ [][NextLifecycle]_vars

(***************************************************************************)
(* The claims about the text document (SpecText).                          *)
(***************************************************************************)
\* C3: resolve and unresolve are exact inverses: for every content and
\* every byte offset ix on a code-point boundary, resolve(unresolve(ix)) is
\* ix, and so unresolve(resolve(P)) is P for the position P = unresolve(ix)
C3_ResolveInvertsUnresolve ==
    [][(TdResolveLast /\ tdLast.ix \in Boundaries(tdContent))
        => /\ tdLast'.ix = tdLast.ix
           /\ unresolve(tdContent, tdLast'.ix) = tdLast.pos]_vars

\* resolve has been applied to what unresolve returned for an offset behind
\* a code point above the BMP on the second line
C3_Witness ==
    /\ tdLast.op = "roundtrip"
    /\ tdLast.pos.Line = 1
    /\ tdLast.pos.Character = 2
    /\ tdContent[Len(tdContent)] = "G"

\* C4 as claimed: a change without range makes the content equal to the
\* text of the change, for every text
C4_FullChangeStoresText ==
    (tdLast.op = "applyChange" /\ tdLast.change.Range = <<>>)
        => tdContent = tdLast.change.Text

\* C4 as amended: a change without range makes the content equal to the
\* text of the change with every CR LF pair and every other CR replaced by
\* one LF, which is the text itself when it holds no CR, whatever the
\* content was before
C4_FullChangeStoresNormalizedText ==
    (tdLast.op = "applyChange" /\ tdLast.change.Range = <<>>)
        => /\ tdContent = normalizeNewlines(tdLast.change.Text)
           /\ \A i \in 1..Len(tdContent) : tdContent[i] # CR
           /\ (\A i \in 1..Len(tdLast.change.Text) : tdLast.change.Text[i] # CR)
                => tdContent = tdLast.change.Text

\* a change without range whose text holds a CR has replaced a content
\* that was not empty
C4_Witness ==
    /\ tdLast.op = "applyChange"
    /\ tdLast.change.Range = <<>>
    /\ \E i \in 1..Len(tdLast.change.Text) : tdLast.change.Text[i] = CR
    /\ tdLast.old # <<>>

\* the change of the last call is an insertion: it has a range whose start
\* equals its end
Inserted ==
    /\ tdLast.op = "applyChange"
    /\ tdLast.change.Range # <<>>
    /\ tdLast.change.Range[1].Start = tdLast.change.Range[1].End

\* the content after text has gone in between old[:k] and old[k:]
InsertedAt(old, k, text) ==
    /\ tdContent = SliceTo(old, k) \o text \o SliceFrom(old, k)
    /\ ByteLen(tdContent) = ByteLen(old) + ByteLen(text)

\* C5 as claimed: a ranged change whose start equals its end is a pure
\* insertion of the text of the change at k = resolve(start): the content
\* grows by exactly the length of that text
C5_InsertionOfText ==
    Inserted => InsertedAt(tdLast.old, resolve(tdLast.old, tdLast.change.Range[1].Start),
                           tdLast.change.Text)

\* C5 as amended: a ranged change whose start equals its end is a pure
\* insertion, at k = resolve(start), of the text of the change with its
\* line ends normalized to LF: the content grows by exactly the length of
\* the normalized text and no old byte is removed
C5_InsertionOfNormalizedText ==
    Inserted => InsertedAt(tdLast.old, resolve(tdLast.old, tdLast.change.Range[1].Start),
                           normalizeNewlines(tdLast.change.Text))

\* a text with a CR LF pair has been inserted behind the first code point
C5_Witness ==
    /\ Inserted
    /\ resolve(tdLast.old, tdLast.change.Range[1].Start) > 0
    /\ Len(tdLast.change.Text) > 1
    /\ tdLast.change.Text[1] = CR
    /\ tdLast.change.Text[2] = LF

(***************************************************************************)
(* The claim about the frame codec (SpecFrames).                           *)
(***************************************************************************)
\* C2: what ReadFrames yields from the bytes WriteFrames wrote is, in
\* order, the frames that were written, each equal in id, method, params,
\* result and error and each without error, and ReadFrames then ends
\* without error, having yielded every frame
C2_ReadFramesInvertsWriteFrames ==
    /\ Len(fcYields) <= Len(fcSent)
    /\ \A i \in 1..Len(fcYields) :
          /\ fcYields[i].err = "nil"
          /\ Len(fcYields[i].frame) = 1
          /\ fcYields[i].frame[1].Id = fcSent[i].Id
          /\ fcYields[i].frame[1].Method = fcSent[i].Method
          /\ fcYields[i].frame[1].Params = fcSent[i].Params
          /\ fcYields[i].frame[1].Result = fcSent[i].Result
          /\ fcYields[i].frame[1].Error = fcSent[i].Error
          /\ fcYields[i].frame[1].Batch = <<>>
    /\ fcEnd \in {"", "end"}
    /\ fcEnd = "end" => Len(fcYields) = Len(fcSent)

\* ReadFrames has ended after two frames, an error response among them
C2_Witness ==
    /\ fcEnd = "end"
    /\ Len(fcYields) = 2
    /\ \E i \in 1..2 : fcSent[i].Error # <<>>
    /\ \E i \in 1..2 : fcSent[i].Method # ""

(***************************************************************************)
(* The claims about the connection and the server (Spec).                  *)
(***************************************************************************)
\* the reader is in c.out <- frame with the reply to a request that has an
\* id, a registered request method and decodable params
ReplyPending ==
    /\ reader.pc = "send"
    /\ Recv.Batch = <<>>
    /\ Recv.Method \in RequestMethods
    /\ Recv.Id # <<>>
    /\ Decoded.ok

\* C1: for every received frame with an id, a registered request method
\* and decodable params, exactly one frame with that id is written, never
\* zero: the reply handleFrame hands to c.out always finds WriteFrames
\* there to take it and write it; and what is written for initialize is a
\* success response whose result declares hoverProvider true
C1_EveryRequestAnswered ==
    /\ ReplyPending => writer.pc # "returned"
    /\ \A i \in 1..Len(written) :
          written[i].Id = <<"0">>
            => /\ written[i].Error = <<>>
               /\ written[i].Result = InitializeResult

\* C6: after a didClose for a uri, every completion or hover request for it
\* fails with "document <uri> not found", replied with code -32603, until a
\* didOpen for it: didClose takes the uri out of openDocs, only didOpen
\* puts a uri into openDocs (didChange does not), and hover and completion
\* for a uri that is not in openDocs answer with that error and start no
\* validation
C6_ClosedStaysNotFound ==
    [][/\ textDocumentDidClose => Decoded.val[1].URI \notin DOMAIN openDocs'
       /\ \A u \in DOMAIN openDocs' \ DOMAIN openDocs :
             textDocumentDidOpen /\ Decoded.val[1].URI = u
       /\ ((textDocumentHover \/ textDocumentCompletion)
              /\ Decoded.val[1].URI \notin DOMAIN openDocs)
            => /\ reader'.pc = "send"
               /\ reader'.then = "return"
               /\ reader'.frame =
                    <<Frame(Recv.Id, "", <<>>, <<>>,
                            <<RpcError(-32603, "document " \o Decoded.val[1].URI
                                                 \o " not found")>>)>>
               /\ tasks' = tasks]_vars

\* a hover for a document that was opened and then closed is answered with
\* the error: the notification of didClose has been written, and the
\* validation started by didOpen is still under way
C6_Witness ==
    /\ reader.pc = "send"
    /\ Recv.Method = "textDocument/hover"
    /\ reader.frame[1].Error # <<>>
    /\ DocD \notin DOMAIN openDocs
    /\ \E i \in 1..Len(written) : written[i] = PublishDiagnostics(DocD, 0, <<>>)
    /\ \E i \in 1..Len(tasks) : tasks[i].kind = "diagnostics" /\ tasks[i].doc.URI = DocD

\* C7: two concurrent calls of loadSchema for the same http(s) URI that is
\* not in httpSchemas cause at most one fetch: no two calls are at or past
\* loadHTTPSchema for a URI that has no cache entry yet
C7_OneFetchPerUri ==
    \A i, j \in 1..Len(tasks) :
        (/\ i # j
         /\ tasks[i].pc \in {"fetch", "store"}
         /\ tasks[j].pc \in {"fetch", "store"}
         /\ tasks[i].schemaUrl \notin DOMAIN httpSchemas)
            => tasks[i].schemaUrl # tasks[j].schemaUrl

\* C8: loadSchema(doc, "") returns schema.Any() without error and leaves no
\* edge for doc in schemasInUse, whatever edge there was; the edges of the
\* other documents, openDocs and httpSchemas are unchanged
C8_EmptyReferenceClearsEdge ==
    [][\A i \in 1..Len(tasks) :
          (LoadSchema(i) /\ SchemaRef(tasks[i].doc.Content) = "")
            => /\ tasks'[i].pc = "validated"
               /\ tasks'[i].schema = "any"
               /\ tasks[i].doc.URI \notin DOMAIN schemasInUse'
               /\ DOMAIN schemasInUse' = DOMAIN schemasInUse \ {tasks[i].doc.URI}
               /\ \A d \in DOMAIN schemasInUse' : schemasInUse'[d] = schemasInUse[d]
               /\ openDocs' = openDocs
               /\ httpSchemas' = httpSchemas]_vars

\* loadSchema(doc, "") has returned schema.Any() for an open document whose
\* edge an earlier validation had set, and the edge is gone
C8_Witness ==
    \E i, j \in 1..Len(tasks) :
        /\ tasks[i].pc = "validated"
        /\ tasks[i].schema = "any"
        /\ tasks[j].doc.URI = tasks[i].doc.URI
        /\ tasks[j].schemaUrl # ""
        /\ tasks[i].doc.URI \in DOMAIN openDocs
        /\ tasks[i].doc.URI \notin DOMAIN schemasInUse

\* C9: a hover on an open document at an existing line is answered with a
\* success response, never with an error; its result is null exactly when
\* validation has no documentation for the line, and is a Hover with
\* markdown contents holding the documentation otherwise
C9_HoverWithoutDocsIsNull ==
    [][\A i \in 1..Len(tasks) :
          (HoverReturns(i)
              /\ tasks[i].position.Line < Len(lines(tasks[i].doc.Content)))
            => /\ reader'.pc = "send"
               /\ Len(reader'.frame) = 1
               /\ reader'.frame[1].Id = Recv.Id
               /\ reader'.frame[1].Error = <<>>
               /\ reader'.frame[1].Result = <<"null">>
                    <=> DocsFor(tasks[i].schema, lines(tasks[i].doc.Content),
                                tasks[i].position.Line) = ""
               /\ reader'.frame[1].Result # <<"null">>
                    => reader'.frame[1].Result =
                         JsonObject(<< <<"contents",
                             JsonObject(<<
                               <<"kind", JsonString("markdown")>>,
                               <<"value",
                                 JsonString(DocsFor(tasks[i].schema,
                                                    lines(tasks[i].doc.Content),
                                                    tasks[i].position.Line))>> >>)>> >>)]_vars

\* a hover on an open document, at a line validation has no documentation
\* for, is answered with the result null
C9_Witness ==
    /\ reader.pc = "send"
    /\ Recv.Method = "textDocument/hover"
    /\ Decoded.ok
    /\ Decoded.val[1].URI \in DOMAIN openDocs
    /\ reader.frame[1].Error = <<>>
    /\ reader.frame[1].Result = <<"null">>

\* C10: a batch is never dropped: exactly one error reply without id is
\* written for it and the connection goes on with the frames that follow:
\* the reply handleFrame hands to c.out for a batch is that error, and it
\* always finds WriteFrames there to take it and write it
C10_BatchRejected ==
    (reader.pc = "send" /\ Recv.Batch # <<>>)
        => /\ reader.frame =
                <<Frame(<<>>, "", <<>>, <<>>,
                        <<RpcError(-32700, "batch requests are not yet supported")>>)>>
           /\ reader.then = "return"
           /\ writer.pc # "returned"

\* C11: a frame whose method has no handler and that carries an id gets
\* exactly one error reply, code -32601 and that id, written, and the
\* connection goes on: the reply handleFrame hands to c.out for it is that
\* error, and it always finds WriteFrames there to take it and write it
C11_NotFoundAnswered ==
    (reader.pc = "send" /\ Recv.Batch = <<>> /\ ~Registered(Recv.Method))
        => /\ Recv.Id # <<>>
           /\ reader.frame =
                <<Frame(Recv.Id, "", <<>>, <<>>,
                        <<RpcError(-32601, Recv.Method \o " not found")>>)>>
           /\ reader.then = "return"
           /\ writer.pc # "returned"

\* C12: when the params of a frame cannot be decoded for the handler of its
\* method, an error reply is produced only if the frame carried an id: a
\* frame without id makes no outbound frame
C12_InvalidParamsOnlyWithId ==
    (reader.pc = "send" /\ Recv.Batch = <<>> /\ Registered(Recv.Method) /\ ~Decoded.ok)
        => Recv.Id # <<>>

\* C13: a frame with an id that names a notification handler gets exactly
\* one error reply, code -32600 and that id, written, and the handler is
\* still called: the error handleFrame hands to c.out before it calls the
\* handler always finds WriteFrames there to take it and write it
C13_NotificationWithIdAnswered ==
    (reader.pc = "send" /\ reader.then = "notify")
        => /\ Recv.Method \in NotificationMethods
           /\ reader.frame =
                <<Frame(Recv.Id, "", <<>>, <<>>,
                        <<RpcError(-32600, "notification cannot have an 'id'")>>)>>
           /\ writer.pc # "returned"

\* C14: a frame without id that names a request handler is inert: the
\* handling of a frame that names a request handler gets to a send, or to
\* the validation of a handler, only if the frame carries an id
C14_RequestWithoutIdInert ==
    (/\ reader.pc \in {"send", "validate", "getParentLine"}
     /\ Recv.Batch = <<>>
     /\ Recv.Method \in RequestMethods)
        => Recv.Id # <<>>

\* the call of schema.Validate the reader is in
ReaderTask ==
    tasks[CHOOSE i \in 1..Len(tasks) : tasks[i].kind \in {"hover", "completion"}]

\* the error the request handler of the received frame returns, "" when it
\* returns normally: before schema.Validate while the frame is dispatched,
\* after it while the reader validates
HandlerFailure ==
    LET params == Decoded.val
    IN  IF Recv.Method \notin {"textDocument/hover", "textDocument/completion"} THEN ""
        ELSE IF reader.pc = "dispatch"
        THEN IF params[1].URI \notin DOMAIN openDocs THEN NotFound(params[1].URI)
             ELSE IF /\ Recv.Method = "textDocument/completion"
                     /\ params[1].Position.Line
                            >= Len(lines(openDocs[params[1].URI].Content))
             THEN InvalidPosition(params[1].Position.Line,
                                  lines(openDocs[params[1].URI].Content))
             ELSE ""
        ELSE IF /\ Recv.Method = "textDocument/hover"
                /\ ReaderTask.position.Line >= Len(lines(ReaderTask.doc.Content))
        THEN InvalidPosition(ReaderTask.position.Line, lines(ReaderTask.doc.Content))
        ELSE ""

\* the JSON text of what the request handler of the received frame returns
\* when it returns normally
HandlerResult ==
    CASE Recv.Method = "initialize" -> InitializeResult
      [] Recv.Method = "shutdown" -> <<"null">>
      [] Recv.Method = "textDocument/hover" ->
            HoverResult(DocsFor(ReaderTask.schema, lines(ReaderTask.doc.Content),
                                ReaderTask.position.Line))
      [] Recv.Method = "textDocument/completion" ->
            CompletionResult(Suggestions(ReaderTask.schema))

\* C15: when a request handler returns a failure, the reply to the request
\* is an error response with code -32603, the message of the failure and
\* the id of the request, and it has no result; when the handler returns
\* normally the reply is a success response with the id, the result of the
\* handler and no error
C15_FailureIsInternalError ==
    [][(/\ reader.pc \in {"dispatch", "validate"}
        /\ reader'.pc = "send"
        /\ Recv.Batch = <<>>
        /\ Recv.Method \in RequestMethods
        /\ Decoded.ok
        /\ Recv.Id # <<>>)
        => /\ Len(reader'.frame) = 1
           /\ reader'.frame[1].Id = Recv.Id
           /\ reader'.frame[1].Method = ""
           /\ reader'.frame[1].Params = <<>>
           /\ IF HandlerFailure # ""
              THEN /\ reader'.frame[1].Error = <<RpcError(-32603, HandlerFailure)>>
                   /\ reader'.frame[1].Result = <<>>
              ELSE /\ reader'.frame[1].Error = <<>>
                   /\ reader'.frame[1].Result = HandlerResult
                   /\ reader'.frame[1].Result # <<>>]_vars

\* textDocumentCompletion has failed for a line the open document does not
\* have, and the reply of handleFrame is the internal error with its message
C15_Witness ==
    /\ reader.pc = "send"
    /\ Recv.Method = "textDocument/completion"
    /\ Recv.Id = <<"3">>
    /\ Decoded.val[1].URI \in DOMAIN openDocs
    /\ reader.frame = <<Frame(<<"3">>, "", <<>>, <<>>,
                              <<RpcError(-32603, "invalid position: 1 >= 1")>>)>>

\* C16: once exit has been handled the read loop consumes no further frame
\* of the inbound stream: with ctx cancelled the reader is back in
\* ReadFrames only to leave the loop, and never dispatches a frame again
C16_NoFrameAfterExit ==
    cancelled => reader.pc \in {"read", "wait", "done"}

\* C17: after a write to the outbound stream has failed Serve returns the
\* error whatever frames arrive: the reader is never in a send to c.out
\* that WriteFrames, which has returned the error, will not take
C17_WriteErrorIsReturned ==
    errCh # <<>> => reader.pc # "send"

\* C18: when the inbound stream ends Serve returns: the read loop always
\* gets back to ReadFrames to find the end of the stream, it is never held
\* in a send to c.out after the outbound stream has been closed
C18_EndOfStreamIsReached ==
    writer.pc = "returned" => reader.pc # "send"

\* C19: a didChange for a uri that is not open is ignored: openDocs,
\* schemasInUse and httpSchemas are unchanged, no updateDiagnostics is
\* started, nothing is handed to c.out or written, and the mutex is free
\* again
C19_DidChangeOfClosedIgnored ==
    [][(textDocumentDidChange /\ Decoded.val[1].URI \notin DOMAIN openDocs)
        => /\ openDocs' = openDocs
           /\ schemasInUse' = schemasInUse
           /\ httpSchemas' = httpSchemas
           /\ tasks' = tasks
           /\ reader' = Idle
           /\ writer' = writer
           /\ written' = written
           /\ mutex' = mutex]_vars

\* the one frame received was a didChange with an id for a document that
\* is not open: the error for the id has been written, the handler has
\* returned, and nothing else has happened
C19_Witness ==
    /\ received = 1
    /\ reader = Idle
    /\ written = <<Frame(<<"6">>, "", <<>>, <<>>,
                         <<RpcError(-32600, "notification cannot have an 'id'")>>)>>
    /\ openDocs = NoEntries
    /\ tasks = <<>>

\* C20: textDocumentDidClose takes the uri out of openDocs and out of
\* schemasInUse and hands exactly one publishDiagnostics notification for
\* the uri, with an empty list of diagnostics, to c.out; the documents and
\* the edges of the other uris, httpSchemas and the validations under way
\* are unchanged
C20_DidCloseClears ==
    [][textDocumentDidClose
        => /\ DOMAIN openDocs' = DOMAIN openDocs \ {Decoded.val[1].URI}
           /\ \A d \in DOMAIN openDocs' : openDocs'[d] = openDocs[d]
           /\ DOMAIN schemasInUse' = DOMAIN schemasInUse \ {Decoded.val[1].URI}
           /\ \A d \in DOMAIN schemasInUse' : schemasInUse'[d] = schemasInUse[d]
           /\ httpSchemas' = httpSchemas
           /\ tasks' = tasks
           /\ written' = written
           /\ reader'.pc = "send"
           /\ reader'.frame =
                <<Frame(<<>>, "textDocument/publishDiagnostics",
                        JsonObject(<< <<"uri", JsonString(Decoded.val[1].URI)>>,
                                      <<"version", Itoa(Decoded.val[1].Version)>>,
                                      <<"diagnostics", <<"[", "]">> >> >>),
                        <<>>, <<>>)>>]_vars

\* textDocumentDidClose has closed a document whose validation had set its
\* edge, the notification is at c.out, and the other document is still
\* open with its edge
C20_Witness ==
    /\ reader.pc = "send"
    /\ Recv.Method = "textDocument/didClose"
    /\ reader.frame = <<PublishDiagnostics(DocD, 0, <<>>)>>
    /\ DocD \notin DOMAIN openDocs
    /\ DocD \notin DOMAIN schemasInUse
    /\ \E j \in 1..Len(tasks) : /\ tasks[j].doc.URI = DocD
                                /\ tasks[j].schemaUrl = HttpS
                                /\ tasks[j].pc # "start"
    /\ DocS \in DOMAIN openDocs
    /\ DocS \in DOMAIN schemasInUse

(***************************************************************************)
(* The claims about the diagnostics (SpecDiagnostics and Spec).            *)
(***************************************************************************)
\* the session is over: ctx is cancelled, WriteFrames has returned or the
\* process has ended
Closed == cancelled \/ writer.pc = "returned" \/ fatal # ""

\* frame is a publishDiagnostics notification for the uri and the version
IsPublishDiagnostics(frame, uri, version) ==
    \E messages \in {<<>>, <<"schema">>} :
        frame = PublishDiagnostics(uri, version, messages)

\* the number of publishDiagnostics notifications written for the uri and
\* the version
Published(uri, version) ==
    Cardinality({k \in 1..Len(written) : IsPublishDiagnostics(written[k], uri, version)})

\* an updateDiagnostics for the uri and the version is under way
DiagnosingFor(uri, version) ==
    \E i \in Diagnosing : tasks[i].doc.URI = uri /\ tasks[i].doc.Version = version

\* C21: as long as the connection stays open, every didOpen and every
\* didChange of an open document is followed by a publishDiagnostics for
\* the uri with the version of the notification: the handler starts an
\* updateDiagnostics for the document it stores, and while one is under
\* way for a uri and a version, one more notification for them is written
\* unless the session is over; didOpen stores the document of its params,
\* with line ends normalized, under the uri, whatever was there, and
\* leaves the other entries alone
C21_DiagnosticsFollow ==
    /\ [][textDocumentDidOpen
            => /\ DOMAIN openDocs' = DOMAIN openDocs \cup {Decoded.val[1].URI}
               /\ openDocs'[Decoded.val[1].URI] =
                     Doc(Decoded.val[1].URI, Decoded.val[1].Version,
                         normalizeNewlines(Decoded.val[1].Text))
               /\ \A d \in DOMAIN openDocs \ {Decoded.val[1].URI} :
                     openDocs'[d] = openDocs[d]
               /\ Len(tasks') = Len(tasks) + 1
               /\ tasks'[Len(tasks')] =
                     Task("diagnostics", openDocs'[Decoded.val[1].URI], Position(0, 0))]_vars
    /\ [][(textDocumentDidChange /\ Decoded.val[1].URI \in DOMAIN openDocs)
            => /\ openDocs'[Decoded.val[1].URI].Version = Decoded.val[1].Version
               /\ Len(tasks') > Len(tasks)
               /\ tasks'[Len(tasks) + 1] =
                     Task("diagnostics", openDocs'[Decoded.val[1].URI], Position(0, 0))]_vars
    /\ \A u \in DocURIs, v \in 1..2, n \in 0..MaxMessages :
          (DiagnosingFor(u, v) /\ Published(u, v) = n)
              ~> (Closed \/ Published(u, v) > n)

\* a document has been opened over an open one, and a publishDiagnostics
\* with its version has been written with the connection still open
C21_Witness ==
    /\ ~Closed
    /\ DocD \in DOMAIN openDocs
    /\ openDocs[DocD].Version = 2
    /\ Published(DocD, 1) = 1
    /\ Published(DocD, 2) = 1
    /\ tasks = <<>>

(***************************************************************************)
(* The claims about the order and the flow of the frames (Spec).           *)
(***************************************************************************)
\* the frame is a response: it carries a result or an error
IsResponse(frame) == frame.Result # <<>> \/ frame.Error # <<>>

\* C22: every response written carries the id of a received frame, the
\* rejection of a batch aside, which is the only response without id
C22_ResponsesCarryId ==
    \A k \in 1..Len(written) :
        IsResponse(written[k])
            => \/ written[k].Id # <<>>
               \/ written[k] = Frame(<<>>, "", <<>>, <<>>,
                                     <<RpcError(-32700,
                                                "batch requests are not yet supported")>>)

C24_WriteNeverHoldsReader ==
    writer.pc = "write" => reader.pc # "send"

\* C25: an updateDiagnostics that is still running when the session is
\* cancelled or WriteFrames has returned always ends: it is never at the
\* send of its notification to c.out with WriteFrames returned, where
\* nobody takes the frame any more
C25_PublishNeverBlocks ==
    writer.pc = "returned" => \A i \in Diagnosing : tasks[i].pc # "validated"

\* C26: an updateDiagnostics validates the content that is stored for its
\* uri when it runs: at its call of schema.Validate, the document it holds
\* is the one openDocs has for the uri
C26_ValidatesStoredContent ==
    [][\A i \in 1..Len(tasks) :
          (/\ LoadSchema(i)
           /\ tasks[i].kind = "diagnostics"
           /\ tasks[i].doc.URI \in DOMAIN openDocs)
            => tasks[i].doc = openDocs[tasks[i].doc.URI]]_vars

\* the places in the outbound stream of the publishDiagnostics
\* notifications for the uri
PublishedAt(uri) ==
    {k \in 1..Len(written) : \E v \in 0..2 : IsPublishDiagnostics(written[k], uri, v)}

\* the last publishDiagnostics notification written for the uri
LastPublished(uri) ==
    written[CHOOSE k \in PublishedAt(uri) : \A j \in PublishedAt(uri) : j <= k]

\* C27: once no frame is being handled and every updateDiagnostics has
\* finished and its notification has been written, no write having
\* failed, the last publishDiagnostics written for an open document has
\* the version of the document in openDocs, and the last one written for
\* a uri that is not open has no diagnostics
C27_LastPublishIsCurrent ==
    (reader.pc = "read" /\ tasks = <<>> /\ writer.pc = "select")
        => \A u \in DocURIs :
              PublishedAt(u) # {}
                => IF u \in DOMAIN openDocs
                   THEN IsPublishDiagnostics(LastPublished(u), u, openDocs[u].Version)
                   ELSE \E v \in 0..2 : LastPublished(u) = PublishDiagnostics(u, v, <<>>)

\* C28: no read of openDocs, schemasInUse or httpSchemas happens while
\* another goroutine writes the map: the process never ends with the
\* runtime's "concurrent map read and map write"
C28_ReadersExcludeWriters ==
    fatal # "concurrent map read and map write"

\* C29: every key of schemasInUse is the uri of an open document
C29_EdgesOfOpenDocuments ==
    DOMAIN schemasInUse \subseteq DOMAIN openDocs

\* the open documents whose edge in schemasInUse is the uri
DependsOn(uri) ==
    {d \in DOMAIN schemasInUse : schemasInUse[d] = uri /\ d \in DOMAIN openDocs}

\* the updateDiagnostics a step has started
Started == SubSeq(tasks', Len(tasks) + 1, Len(tasks'))

DocsOf(ts) == [k \in 1..Len(ts) |-> ts[k].doc]

\* the calls under way without the i-th, all of them for i = 0
Without(i) == IF i = 0 THEN tasks ELSE Remove(tasks, i)

\* the content of file:///d after the first of the two edits only
PartlyEdited == applyChange(<<"a">>, TwoEdits[1])

\* C31: didChange never mutates a document that was already stored: in
\* every step the documents held by the validations that go on are what
\* they were (a step ends one validation at most and starts new ones
\* behind the others); a didChange of an open document leaves the
\* validations under way alone, puts the document with the version of the
\* notification under the uri and leaves the other entries alone; and
\* neither the store nor a validation ever holds the content with only the
\* first of the two edits applied
C31_StoredDocumentsAreNeverMutated ==
    /\ [][\E i \in 0..Len(tasks) :
            /\ Len(tasks') >= Len(Without(i))
            /\ SubSeq(DocsOf(tasks'), 1, Len(Without(i))) = DocsOf(Without(i))]_vars
    /\ [][(textDocumentDidChange /\ Decoded.val[1].URI \in DOMAIN openDocs)
            => /\ SubSeq(tasks', 1, Len(tasks)) = tasks
               /\ DOMAIN openDocs' = DOMAIN openDocs
               /\ openDocs'[Decoded.val[1].URI].URI = Decoded.val[1].URI
               /\ openDocs'[Decoded.val[1].URI].Version = Decoded.val[1].Version
               /\ \A u \in DOMAIN openDocs \ {Decoded.val[1].URI} :
                     openDocs'[u] = openDocs[u]]_vars
    /\ [](/\ \A u \in DOMAIN openDocs : openDocs[u].Content # PartlyEdited
          /\ \A i \in 1..Len(tasks) : tasks[i].doc.Content # PartlyEdited)

\* a validation still holds version 1 of file:///d with its content while
\* the store holds version 2 with both edits applied
C31_Witness ==
    /\ DocD \in DOMAIN openDocs
    /\ openDocs[DocD] = Doc(DocD, 2, <<"G", "a">>)
    /\ \E i \in Diagnosing : tasks[i].doc = Doc(DocD, 1, <<"a">>)

\* C32: a didChange of an open document stores, with the version of the
\* notification, the content the changes make of the stored content when
\* they are applied one after the other in the order given, each to what
\* the one before has made
C32_ChangesAppliedInOrder ==
    [][(textDocumentDidChange /\ Decoded.val[1].URI \in DOMAIN openDocs)
         => LET params == Decoded.val[1]
                old == openDocs[params.URI].Content
                changes == params.ContentChanges
            IN  openDocs'[params.URI] =
                  Doc(params.URI, params.Version,
                      CASE Len(changes) = 0 -> old
                        [] Len(changes) = 1 -> applyChange(old, changes[1])
                        [] Len(changes) = 2 ->
                             applyChange(applyChange(old, changes[1]), changes[2])
                        [] OTHER -> <<"more than two changes">>)]_vars

\* the two edits of one notification have been applied to version 1 of
\* file:///d: the second has replaced the first code point of what the
\* first has made
C32_Witness ==
    /\ DocD \in DOMAIN openDocs
    /\ openDocs[DocD] = Doc(DocD, 2, applyChange(applyChange(<<"a">>, TwoEdits[1]),
                                                  TwoEdits[2]))
    /\ openDocs[DocD].Content = <<"G", "a">>
    /\ applyChange(applyChange(<<"a">>, TwoEdits[2]), TwoEdits[1]) # <<"G", "a">>


(***************************************************************************)
(* The claims about positions (SpecText).                                  *)
(***************************************************************************)
RECURSIVE Utf16Len(_)
\* the length of a line in UTF-16 code units
Utf16Len(line) ==
    IF line = <<>> THEN 0 ELSE RuneLen(Head(line)) + Utf16Len(Tail(line))

RECURSIVE LineStart(_, _)
\* the byte offset at which the k-th of the lines ls starts, k from 1
LineStart(ls, k) ==
    IF k = 1 THEN 0 ELSE LineStart(ls, k - 1) + ByteLen(ls[k - 1]) + 1

\* the byte offset at which the k-th of the lines ls ends: the offset of
\* its newline, and the length of the content for the last line
LineEnd(ls, k) == LineStart(ls, k) + ByteLen(ls[k])

\* C33: resolve returns, for every content and every position, a byte
\* offset on a code-point boundary of the content; a column at or beyond
\* the end of its line gives the offset at which the line ends (that of
\* its newline), a line beyond the last gives the length of the content;
\* and so applyChange replaces the bytes between two offsets of the
\* content for every range, also one whose start lies after its end
C33_ResolveClamps ==
    /\ tdLast.op = "resolve"
        => LET ls == lines(tdLast.old)
               line == tdLast.pos.Line
           IN  /\ tdLast.ix \in Boundaries(tdLast.old)
               /\ tdLast.ix \in 0..ByteLen(tdLast.old)
               /\ line >= Len(ls) => tdLast.ix = ByteLen(tdLast.old)
               /\ (line < Len(ls) /\ tdLast.pos.Character >= Utf16Len(ls[line + 1]))
                    => tdLast.ix = LineEnd(ls, line + 1)
               /\ line < Len(ls)
                    => /\ tdLast.ix >= LineStart(ls, line + 1)
                       /\ tdLast.ix <= LineEnd(ls, line + 1)
    /\ (tdLast.op = "applyChange" /\ tdLast.change.Range # <<>>)
        => LET start == resolve(tdLast.old, tdLast.change.Range[1].Start)
               end == resolve(tdLast.old, tdLast.change.Range[1].End)
           IN  /\ start \in Boundaries(tdLast.old)
               /\ end \in Boundaries(tdLast.old)
               /\ tdContent = SliceTo(tdLast.old, start)
                                \o normalizeNewlines(tdLast.change.Text)
                                \o SliceFrom(tdLast.old, end)

\* applyChange has been given a range whose start, a column beyond the end
\* of the first line, resolves to the offset of the newline and lies after
\* its end: the content before the start is followed by the content from
\* the end on
C33_Witness ==
    /\ tdLast.op = "applyChange"
    /\ tdLast.old = <<"a", LF>>
    /\ tdLast.change = RangedChange(Position(0, 2), Position(0, 0), <<>>)
    /\ resolve(tdLast.old, Position(0, 2)) = 1
    /\ tdContent = <<"a", "a", LF>>


(***************************************************************************)
(* The claims about the schemas (SpecSchemas).                             *)
(***************************************************************************)
\* the reference resolved against the uri of a document of the model, as
\* url.URL.ResolveReference does: "./s" names the sibling s of the
\* document, an absolute reference names itself
ResolvedAgainst(uri, ref) ==
    CASE ref = "./s" /\ uri \in {"file:///d", "file:///s"} -> "file:///s"
      [] ref = "https://h/s" -> "https://h/s"
      [] OTHER -> "unparsable"

\* the references of the model that url.Parse accepts
Parsable == {"./s", "https://h/s"}

\* the steps of loadSchema after its first critical section
LoadSchemaGoesOn(i) ==
    \/ \E read \in {"ok", "err"} : LoadSchemaOpenDoc(i, read)
    \/ LoadSchemaCached(i)
    \/ \E fetched \in {"ok", "err"} : loadHTTPSchema(i, fetched)
    \/ LoadSchemaStore(i)

EdgeAlready(i, schemaUrl) ==
    /\ tasks[i].doc.URI \in DOMAIN schemasInUse
    /\ schemasInUse[tasks[i].doc.URI] = schemaUrl

\* C35: for an http(s) schema uri that is not an open document, a cached
\* schema is returned without a fetch; a cached failure is returned
\* without a fetch to a call that found the edge of its document pointing
\* at the uri already, and a call that changed the edge fetches; a call
\* that finds no entry fetches; and what a fetch gives, a schema or a
\* failure, is stored under the uri and returned by the call
C35_CacheDecidesTheFetch ==
    /\ [][\A i \in 1..Len(tasks) :
            (LoadSchema(i) /\ SchemaRef(tasks[i].doc.Content) \in Parsable)
              => tasks'[i].shouldLoad
                    = ~EdgeAlready(i, ResolvedAgainst(tasks[i].doc.URI,
                                                      SchemaRef(tasks[i].doc.Content)))]_vars
    /\ [][\A i \in 1..Len(tasks) :
            LoadSchemaCached(i)
              => LET u == tasks[i].schemaUrl IN
                 /\ httpSchemas' = httpSchemas
                 /\ (u \in DOMAIN httpSchemas /\ httpSchemas[u] = "ok")
                      => tasks'[i].pc = "validated" /\ tasks'[i].schema = "ok"
                 /\ (u \in DOMAIN httpSchemas /\ httpSchemas[u] = "err"
                        /\ ~tasks[i].shouldLoad)
                      => tasks'[i].pc = "validated" /\ tasks'[i].schema = "err"
                 /\ (u \in DOMAIN httpSchemas /\ httpSchemas[u] = "err"
                        /\ tasks[i].shouldLoad)
                      => tasks'[i].pc = "fetch"
                 /\ u \notin DOMAIN httpSchemas => tasks'[i].pc = "fetch"]_vars
    /\ [][\A i \in 1..Len(tasks) :
            /\ \A fetched \in {"ok", "err"} :
                  loadHTTPSchema(i, fetched)
                    => /\ tasks'[i].pc = "store"
                       /\ tasks'[i].schema = fetched
                       /\ httpSchemas' = httpSchemas
            /\ LoadSchemaStore(i)
                  => /\ httpSchemas' = Put(httpSchemas, tasks[i].schemaUrl, tasks[i].schema)
                     /\ tasks'[i].pc = "validated"
                     /\ tasks'[i].schema = tasks[i].schema]_vars
    /\ [](\A i \in 1..Len(tasks) :
            tasks[i].pc \in {"cache", "fetch", "store"}
              => Scheme(tasks[i].schemaUrl) \in {"http", "https"})

\* the fetch of https://h/s has failed; version 2 of file:///d, whose edge
\* pointed at the uri already, has been given the cached failure, and
\* file:///s, whose edge has just changed to the uri, fetches again
C35_Witness ==
    /\ HttpS \in DOMAIN httpSchemas
    /\ httpSchemas[HttpS] = "err"
    /\ \E i \in Diagnosing :
          /\ tasks[i].doc.URI = DocD
          /\ tasks[i].doc.Version = 2
          /\ ~tasks[i].shouldLoad
          /\ tasks[i].pc = "validated"
          /\ tasks[i].schema = "err"
    /\ \E i \in Diagnosing :
          /\ tasks[i].doc.URI = DocS
          /\ tasks[i].shouldLoad
          /\ tasks[i].pc = "fetch"
    /\ \E k \in 1..Len(written) : IsPublishDiagnostics(written[k], DocD, 1)

\* C36: once httpSchemas holds a parsed schema for a uri, it holds a parsed
\* schema for that uri in every later state: no step replaces the schema
\* by a failure or removes the entry
C36_CachedSchemaStays ==
    [][\A u \in DOMAIN httpSchemas :
          httpSchemas[u] = "ok" => (u \in DOMAIN httpSchemas' /\ httpSchemas'[u] = "ok")]_vars


(***************************************************************************)
(* The claims about the inbound stream (SpecRead).                         *)
(***************************************************************************)
\* ReadFrames has yielded one error more, no frame, and has returned
YieldsOneError ==
    /\ Len(fcYields') = Len(fcYields) + 1
    /\ SubSeq(fcYields', 1, Len(fcYields)) = fcYields
    /\ fcYields'[Len(fcYields')].frame = <<>>
    /\ fcYields'[Len(fcYields')].err # "nil"
    /\ fcEnd' = "error"

\* C37: for every block with a malformed header (a header line without a
\* colon, no Content-Length header, a Content-Length that is not a
\* non-negative integer) ReadFrames yields one error, no frame, and
\* returns: it does not panic
C37_MalformedHeaderYieldsError ==
    [][(FcReadFrame /\ fcWire \in MalformedBlocks) => YieldsOneError]_vars

\* C38: when the stream ends inside a frame, in a header line, between the
\* header lines and the blank line, or in the payload, ReadFrames yields
\* the error unexpected EOF and returns; when the stream ends at a frame
\* boundary it returns without yielding anything
C38_TruncationYieldsUnexpectedEOF ==
    /\ [][(FcReadFrame /\ fcWire \in Truncations)
            => /\ YieldsOneError
               /\ fcYields'[Len(fcYields')].err = "unexpected EOF"]_vars
    /\ [][(FcReadFrame /\ fcWire = <<>>)
            => /\ fcYields' = fcYields
               /\ fcEnd' = "end"]_vars


(***************************************************************************)
(* The claim about getParentLine (SpecParent).                             *)
(***************************************************************************)
\* the line has text that is neither blank nor a comment within its first
\* p bytes
ShallowerText(line, p) ==
    LET within == {j \in 1..Len(line) : j <= p /\ line[j] \notin {" ", "\t"}}
    IN  /\ within # {}
        /\ line[CHOOSE j \in within : \A k \in within : j <= k] # ";"

\* the nearest line before lno with such text, -1 when there is none
NearestShallower(ls, lno) ==
    LET above == {k \in 0..(lno - 1) : ShallowerText(ls[k + 1], Indent(ls[lno + 1]))}
    IN  IF above = {} THEN -1 ELSE CHOOSE k \in above : \A j \in above : j <= k

\* C39: for every list of lines and every line, getParentLine returns, and
\* what it returns is the nearest line before the line that has text,
\* neither blank nor a comment, at an indent below that of the line, and
\* -1 when there is none, also when a line before it is blank or shorter
\* than the indent
C39_ParentLineIsFound ==
    tdLast.op \in {"getParentLine", "getParentLine runs for ever"}
        => /\ tdLast.op = "getParentLine"
           /\ tdLast.ix = NearestShallower(lines(tdLast.old), tdLast.pos.Line)

(***************************************************************************)
(* The claim about shutdown and exit (SpecLifecycle).                      *)
(***************************************************************************)
\* handleFrame takes a step for the frame it was called with
Handling(method) ==
    /\ Dispatching
    /\ Recv.Batch = <<>>
    /\ Recv.Method = method
    /\ Recv.Params \in {<<>>, <<"null">>}
    /\ reader' # reader

\* C40: a shutdown request whose params are null or missing is answered
\* with the result null and the id of the request, and an exit
\* notification whose params are null or missing cancels the context
C40_ShutdownAndExitDispatched ==
    /\ [][(Handling("shutdown") /\ Recv.Id # <<>>)
            => /\ reader'.pc = "send"
               /\ reader'.frame = <<Frame(Recv.Id, "", <<>>, <<"null">>, <<>>)>>]_vars
    /\ [][(Handling("exit") /\ Recv.Id = <<>>) => cancelled']_vars

====
